---- MODULE Spec2Model ----
(***************************************************************************)
(* Model of the asset-state object `Files` of animosity (src/files.rs):    *)
(* the sprite catalogue, the aggregate (mainSD) container handle, the      *)
(* open-file cache, the edit overlay and the files on disk, with one       *)
(* action per public operation of `Files`.                                 *)
(***************************************************************************)
EXTENDS Integers, Sequences, FiniteSets, TLC

\* ------------------------------------------------------------------ bounds

\* Largest number of edits pending in the overlay at once.
MaxEdits == 2

\* The sprites the aggregate container reports (the catalogue's indices).
Sprites == {0, 1}

\* The sprites of the containers that hold a chain of references.
ChainSprites == {0, 1, 2}
SpriteTypes == {"Sd", "Hd", "Hd2"}
Keys == Sprites \X SpriteTypes

\* Widths the mutators passed to update_file write (1 is every original width).
Widths == {1, 2}

\* Option<T>
None == [kind |-> "None"]
Some(x) == [kind |-> "Some", v |-> x]

\* ------------------------------------------------------------------ data

\* anim::SpriteValues
SpriteValues(unk2, width, height) == [unk2 |-> unk2, width |-> width, height |-> height]

\* !0 on the 16-bit field unk2
U16Max == 65535

\* The values set_ref_enabled(.., false) writes.
SentinelValues == SpriteValues(U16Max, 0, 0)

\* enum Edit
EditRef(img) == [kind |-> "Ref", img |-> img]
EditValues(values, tex_changes) ==
    [kind |-> "Values", values |-> values, tex_changes |-> tex_changes]

\* anim::ValuesOrRef
VorValues(values) == [kind |-> "Values", values |-> values]
VorRef(img) == [kind |-> "Ref", img |-> img]

\* anim::SpriteType (a slot of the aggregate container)
SlotRef(img) == [kind |-> "Ref", img |-> img]
SlotData(values, frames, textures) ==
    [kind |-> "Data", values |-> values, frames |-> frames, textures |-> textures]

\* anim::TexChanges handed over by the frame import: a frame list and the
\* per-layer texture bytes, kept as opaque tokens.
ImportedTex == [frames |-> <<"import", 0, "frames">>, textures |-> <<"import", 0, "textures">>]
TexChangesIn == {ImportedTex}

\* Frame list / texture bytes a container holds for a sprite before any edit.
OrigFrames(i, ty) == <<"orig", i, ty>>
OrigTextures(i, ty) == <<"orig", i, ty>>
NoFrames == <<"none", 0, "">>

OrigValues(i, ty) == SpriteValues(i, 1, 1)
OrigData(i) == SlotData(OrigValues(i, "Sd"), OrigFrames(i, "Sd"), OrigTextures(i, "Sd"))

\* ------------------------------------------------------------------ paths

\* A path is its directory under the root, its file name and the prefix the
\* file name carries ("" for the files of the asset tree).
Path(dir, name) == [dir |-> dir, name |-> name, prefix |-> ""]
MainSdPath == Path("SD", <<"mainSD", 0>>)
hd_filename(i, dir) == Path(dir, <<"main", i>>)

temp_file_path(orig_file) == [orig_file EXCEPT !.prefix = "__temp__"]

TreePaths ==
    {MainSdPath} \cup {hd_filename(i, d) : i \in ChainSprites, d \in {"anim", "HD2/anim"}}
Paths == TreePaths \cup {temp_file_path(p) : p \in TreePaths}

\* File contents
NoFile == [kind |-> "NoFile"]
Partial == [kind |-> "Partial"]
MainSdFile(slots) == [kind |-> "MainSd", sprites |-> slots]
AnimFile(values, frames, textures) ==
    [kind |-> "Anim", values |-> values, frames |-> frames, textures |-> textures]

\* enum SpriteFiles
AnimSet(i) ==
    [kind |-> "AnimSet", image_id |-> i,
     hd_filename |-> hd_filename(i, "anim"), hd2_filename |-> hd_filename(i, "HD2/anim")]

\* ------------------------------------------------------------------ state

VARIABLES
    sprites,      \* Files.sprites: the catalogue, index -> SpriteFiles
    mainsd_anim,  \* Files.mainsd_anim: Option<(path, MainSd)>
    open_files,   \* Files.open_files: sequence of (Anim, sprite, type)
    edits,        \* Files.edits: HashMap<(sprite, type), Edit>
    disk,         \* the files of the asset tree: path -> contents
    saves,        \* number of save() calls made
    last          \* the call that produced this state and what it returned

vars == <<sprites, mainsd_anim, open_files, edits, disk, saves, last>>

\* HashMap operations
MapInsert(m, k, v) == [x \in (DOMAIN m) \cup {k} |-> IF x = k THEN v ELSE m[x]]
MapRemove(m, k) == [x \in (DOMAIN m) \ {k} |-> m[x]]
EmptyMap == [x \in {} |-> None]
MapGet(m, k) == IF k \in DOMAIN m THEN Some(m[k]) ELSE None

\* ------------------------------------------------------------------ codec

\* MainSd::values_or_ref: the slot of a sprite, as owned values or a reference.
MainSd_values_or_ref(mainsd, sprite) ==
    LET slot == mainsd.sprites[sprite]
    IN IF slot.kind = "Ref" THEN VorRef(slot.img) ELSE VorValues(slot.values)

\* The data a slot resolves to: its own, or, through one reference hop, the
\* target's; nothing when the target is missing or is a reference itself.
MainSd_resolve(mainsd, sprite) ==
    IF sprite \notin DOMAIN mainsd.sprites THEN None
    ELSE LET slot == mainsd.sprites[sprite]
         IN IF slot.kind = "Data" THEN Some(slot)
            ELSE IF slot.img \in DOMAIN mainsd.sprites /\ mainsd.sprites[slot.img].kind = "Data"
                 THEN Some(mainsd.sprites[slot.img])
                 ELSE None

\* The sizes of the layers of a texture payload.
SizesOf(textures) == <<"sizes", textures>>

\* MainSd::sprite_values / frames / texture_sizes
MainSd_sprite_values(mainsd, sprite) ==
    LET d == MainSd_resolve(mainsd, sprite)
    IN IF d = None THEN None ELSE Some(d.v.values)

MainSd_frames(mainsd, sprite) ==
    LET d == MainSd_resolve(mainsd, sprite)
    IN IF d = None THEN None ELSE Some(d.v.frames)

MainSd_texture_sizes(mainsd, sprite) ==
    LET d == MainSd_resolve(mainsd, sprite)
    IN IF d = None THEN None ELSE Some(SizesOf(d.v.textures))

\* MainSd::write_patched: the container with every listed slot replaced. A slot
\* that gets owned values keeps its frames and textures unless a texture
\* change is listed for it; a slot that was a reference has none to keep.
MainSd_write_patched(mainsd, sd_edits, sd_textures) ==
    MainSdFile(
        [i \in DOMAIN mainsd.sprites |->
            IF i \notin DOMAIN sd_edits THEN mainsd.sprites[i]
            ELSE IF sd_edits[i].kind = "Ref" THEN SlotRef(sd_edits[i].img)
            ELSE IF i \in DOMAIN sd_textures
                 THEN SlotData(sd_edits[i].values, sd_textures[i].frames, sd_textures[i].textures)
            ELSE IF mainsd.sprites[i].kind = "Data"
                 THEN SlotData(sd_edits[i].values, mainsd.sprites[i].frames,
                               mainsd.sprites[i].textures)
            ELSE SlotData(sd_edits[i].values, NoFrames, NoFrames)])

\* Anim::write_patched: the single-sprite container with the values replaced and,
\* when a texture change is given, its frames and textures.
Anim_write_patched(anim, values, tex_edits) ==
    IF tex_edits = None THEN AnimFile(values, anim.frames, anim.textures)
    ELSE AnimFile(values, tex_edits.v.frames, tex_edits.v.textures)

\* ------------------------------------------------------------------ resolver

\* FileLocation
LocMainSd(sprite, mainsd) == [kind |-> "MainSd", sprite |-> sprite, mainsd |-> mainsd]
LocSeparate(anim) == [kind |-> "Separate", anim |-> anim]

\* Result<Option<FileLocation>, Error> together with the cache as the call leaves it
Located(res, loc, cache) == [res |-> res, loc |-> loc, open_files |-> cache]

\* Outcomes of opening and decoding a file: the environment's choice.
IoOutcomes == {"ok", "open_err", "read_err"}

\* separate_file_path taking the path of whatever entry the catalogue holds.
separate_file_path_AnyEntry(catalogue, files, sprite, ty) ==
    IF sprite \notin DOMAIN catalogue THEN None
    ELSE LET path == IF catalogue[sprite].kind = "SingleFile" THEN catalogue[sprite].path
                     ELSE IF catalogue[sprite].kind = "MainSdOnly"
                     THEN hd_filename(catalogue[sprite].image_id, "anim")
                     ELSE IF ty = "Hd2" THEN catalogue[sprite].hd2_filename
                     ELSE catalogue[sprite].hd_filename
         IN IF files[path].kind # "NoFile" THEN Some(path) ELSE None

separate_file_path(catalogue, files, sprite, ty) ==
    IF sprite \notin DOMAIN catalogue THEN None
    ELSE IF catalogue[sprite].kind # "AnimSet" THEN None
    ELSE LET path == IF ty = "Hd2" THEN catalogue[sprite].hd2_filename
                     ELSE catalogue[sprite].hd_filename
         IN IF files[path].kind # "NoFile" THEN Some(path) ELSE None

CachePosition(cache, sprite, ty) ==
    {n \in 1 .. Len(cache) : cache[n].sprite = sprite /\ cache[n].ty = ty}

\* file_location_hd opening the file whether the key is cached or not.
file_location_hd_Uncached(cache, catalogue, files, sprite, ty, io) ==
    LET path == separate_file_path(catalogue, files, sprite, ty)
    IN IF path = None THEN Located("None", None, cache)
       ELSE IF io # "ok" \/ files[path.v].kind # "Anim" THEN Located("Err", None, cache)
       ELSE Located("Some", LocSeparate(files[path.v]),
                    Append(cache, [anim |-> files[path.v], sprite |-> sprite, ty |-> ty]))

\* file_location_hd with a missing file reported as an error.
file_location_hd_MissingIsError(cache, catalogue, files, sprite, ty, io) ==
    IF CachePosition(cache, sprite, ty) # {}
    THEN Located("Some",
                 LocSeparate(cache[CHOOSE n \in CachePosition(cache, sprite, ty) :
                                     \A m \in CachePosition(cache, sprite, ty) : n <= m].anim),
                 cache)
    ELSE LET path == separate_file_path(catalogue, files, sprite, ty)
         IN IF path = None \/ io # "ok" \/ files[path.v].kind # "Anim"
            THEN Located("Err", None, cache)
            ELSE Located("Some", LocSeparate(files[path.v]),
                         Append(cache, [anim |-> files[path.v], sprite |-> sprite, ty |-> ty]))

file_location_hd(cache, catalogue, files, sprite, ty, io) ==
    IF CachePosition(cache, sprite, ty) # {}
    THEN LET index == CHOOSE n \in CachePosition(cache, sprite, ty) :
                        \A m \in CachePosition(cache, sprite, ty) : n <= m
         IN Located("Some", LocSeparate(cache[index].anim), cache)
    ELSE LET path == separate_file_path(catalogue, files, sprite, ty)
         IN IF path = None THEN Located("None", None, cache)
            ELSE IF io = "open_err" THEN Located("Err", None, cache)
            ELSE IF io = "read_err" \/ files[path.v].kind # "Anim" THEN Located("Err", None, cache)
            ELSE LET anim == files[path.v]
                 IN Located("Some", LocSeparate(anim),
                            Append(cache, [anim |-> anim, sprite |-> sprite, ty |-> ty]))

file_location(mainsd, cache, catalogue, files, sprite, ty, io) ==
    IF ty = "Sd"
    THEN IF mainsd = None THEN Located("None", None, cache)
         ELSE Located("Some", LocMainSd(sprite, mainsd.v.sd), cache)
    ELSE file_location_hd(cache, catalogue, files, sprite, ty, io)

\* FileLocation::values_or_ref
values_or_ref(loc) ==
    IF loc.kind = "MainSd" THEN Some(MainSd_values_or_ref(loc.mainsd, loc.sprite))
    ELSE Some(VorValues(loc.anim.values))

\* FileLocation::image_ref
image_ref(loc) ==
    IF loc.kind = "MainSd"
    THEN IF loc.sprite \in DOMAIN loc.mainsd.sprites /\ loc.mainsd.sprites[loc.sprite].kind = "Ref"
         THEN Some(loc.mainsd.sprites[loc.sprite].img)
         ELSE None
    ELSE None

\* ------------------------------------------------------------------ view

\* FileLocation::sprite_values / frames / texture_sizes
Loc_sprite_values(loc) ==
    IF loc.kind = "MainSd" THEN MainSd_sprite_values(loc.mainsd, loc.sprite)
    ELSE Some(loc.anim.values)

Loc_frames(loc) ==
    IF loc.kind = "MainSd" THEN MainSd_frames(loc.mainsd, loc.sprite)
    ELSE Some(loc.anim.frames)

Loc_texture_sizes(loc) ==
    IF loc.kind = "MainSd" THEN MainSd_texture_sizes(loc.mainsd, loc.sprite)
    ELSE Some(SizesOf(loc.anim.textures))

\* struct File
FileOf(location, sprite_values, frames, textures, texture_sizes, img_ref) ==
    [location |-> location, sprite_values |-> sprite_values, frames |-> frames,
     textures |-> textures, texture_sizes |-> texture_sizes, image_ref |-> img_ref]

\* Result<Option<File>, Error> together with the cache as the call leaves it;
\* "Panic" is the failed assertion of the Ref branch.
Viewed(res, view, cache) == [res |-> res, view |-> view, open_files |-> cache]

TexFrames(tex_changes) == IF tex_changes = None THEN None ELSE Some(tex_changes.v.frames)
TexTextures(tex_changes) == IF tex_changes = None THEN None ELSE Some(tex_changes.v.textures)

\* ViewValues with the reference status left to the location.
ViewValuesKeepingRef(e, fl) ==
    IF fl.res # "Some" THEN Viewed(fl.res, None, fl.open_files)
    ELSE Viewed("Some",
                FileOf(fl.loc, Some(e.values), TexFrames(e.tex_changes),
                       TexTextures(e.tex_changes), None, None),
                fl.open_files)

\* Files::file, the key holding the Values edit `e`: the edit's values and the
\* fields of its texture change, no reference.
ViewValues(e, fl) ==
    IF fl.res # "Some" THEN Viewed(fl.res, None, fl.open_files)
    ELSE Viewed("Some",
                FileOf(fl.loc, Some(e.values), TexFrames(e.tex_changes),
                       TexTextures(e.tex_changes), None, Some(None)),
                fl.open_files)

\* Files::file, the key holding the edit Ref(img_id): the Values edit of the
\* target when it holds one, else what the aggregate container has for it.
ViewRef(ed, mainsd, cache, sprite, ty, img_id) ==
    IF ty # "Sd" THEN Viewed("Panic", None, cache)
    ELSE IF mainsd = None THEN Viewed("None", None, cache)
    ELSE IF <<img_id, ty>> \in DOMAIN ed /\ ed[<<img_id, ty>>].kind = "Values"
    THEN Viewed("Some",
                FileOf(LocMainSd(sprite, mainsd.v.sd), Some(ed[<<img_id, ty>>].values),
                       TexFrames(ed[<<img_id, ty>>].tex_changes),
                       TexTextures(ed[<<img_id, ty>>].tex_changes), None,
                       Some(Some(img_id))),
                cache)
    ELSE Viewed("Some",
                FileOf(LocMainSd(sprite, mainsd.v.sd),
                       MainSd_sprite_values(mainsd.v.sd, img_id),
                       MainSd_frames(mainsd.v.sd, img_id), None,
                       MainSd_texture_sizes(mainsd.v.sd, img_id),
                       Some(Some(img_id))),
                cache)

\* ViewNone reporting no reference, as the Values branch does.
ViewNoneNoReference(ed, fl, ty) ==
    IF fl.res # "Some" THEN Viewed(fl.res, None, fl.open_files)
    ELSE IF /\ image_ref(fl.loc) # None
            /\ <<image_ref(fl.loc).v, ty>> \in DOMAIN ed
            /\ ed[<<image_ref(fl.loc).v, ty>>].kind = "Values"
    THEN Viewed("Some",
                FileOf(fl.loc, Some(ed[<<image_ref(fl.loc).v, ty>>].values),
                       TexFrames(ed[<<image_ref(fl.loc).v, ty>>].tex_changes),
                       TexTextures(ed[<<image_ref(fl.loc).v, ty>>].tex_changes), None,
                       Some(None)),
                fl.open_files)
    ELSE Viewed("Some", FileOf(fl.loc, None, None, None, None, Some(None)), fl.open_files)

\* ViewNone with the edit of the original's target left out.
ViewNoneOriginalOnly(ed, fl, ty) ==
    IF fl.res # "Some" THEN Viewed(fl.res, None, fl.open_files)
    ELSE Viewed("Some", FileOf(fl.loc, None, None, None, None, None), fl.open_files)

\* The edit the view takes over: that of `img`, or, when `img` holds a Ref
\* edit, that of the sprite it refers to.
Followed(ed, img, ty) ==
    IF <<img, ty>> \in DOMAIN ed /\ ed[<<img, ty>>].kind = "Ref"
    THEN MapGet(ed, <<ed[<<img, ty>>].img, ty>>)
    ELSE MapGet(ed, <<img, ty>>)

\* ViewNone following a Ref edit of the original's target one sprite further.
ViewNoneFollowingRef(ed, fl, ty) ==
    IF fl.res # "Some" THEN Viewed(fl.res, None, fl.open_files)
    ELSE IF /\ image_ref(fl.loc) # None
            /\ Followed(ed, image_ref(fl.loc).v, ty) # None
            /\ Followed(ed, image_ref(fl.loc).v, ty).v.kind = "Values"
    THEN Viewed("Some",
                FileOf(fl.loc, Some(Followed(ed, image_ref(fl.loc).v, ty).v.values),
                       TexFrames(Followed(ed, image_ref(fl.loc).v, ty).v.tex_changes),
                       TexTextures(Followed(ed, image_ref(fl.loc).v, ty).v.tex_changes),
                       None, None),
                fl.open_files)
    ELSE Viewed("Some", FileOf(fl.loc, None, None, None, None, None), fl.open_files)

\* Files::file, the key holding no edit: the location as it is, under the
\* Values edit of the sprite its original refers to when there is one.
ViewNone(ed, fl, ty) ==
    IF fl.res # "Some" THEN Viewed(fl.res, None, fl.open_files)
    ELSE IF /\ image_ref(fl.loc) # None
            /\ <<image_ref(fl.loc).v, ty>> \in DOMAIN ed
            /\ ed[<<image_ref(fl.loc).v, ty>>].kind = "Values"
    THEN Viewed("Some",
                FileOf(fl.loc, Some(ed[<<image_ref(fl.loc).v, ty>>].values),
                       TexFrames(ed[<<image_ref(fl.loc).v, ty>>].tex_changes),
                       TexTextures(ed[<<image_ref(fl.loc).v, ty>>].tex_changes), None, None),
                fl.open_files)
    ELSE Viewed("Some", FileOf(fl.loc, None, None, None, None, None), fl.open_files)

\* Files::file, on the overlay `ed`, the handle `mainsd` and the cache `cache`.
FileIn(ed, mainsd, cache, catalogue, files, sprite, ty, io) ==
    IF <<sprite, ty>> \in DOMAIN ed /\ ed[<<sprite, ty>>].kind = "Values"
    THEN ViewValues(ed[<<sprite, ty>>],
                    file_location(mainsd, cache, catalogue, files, sprite, ty, io))
    ELSE IF <<sprite, ty>> \in DOMAIN ed
    THEN ViewRef(ed, mainsd, cache, sprite, ty, ed[<<sprite, ty>>].img)
    ELSE ViewNone(ed, file_location(mainsd, cache, catalogue, files, sprite, ty, io), ty)

\* File::sprite_values
File_sprite_values(f) ==
    IF f.sprite_values # None THEN f.sprite_values ELSE Loc_sprite_values(f.location)

\* File::frames
File_frames(f) ==
    IF f.frames # None THEN f.frames ELSE Loc_frames(f.location)

\* File::texture_size, for the layers together
File_texture_sizes(f) ==
    IF f.textures # None THEN Some(SizesOf(f.textures.v))
    ELSE IF f.texture_sizes # None THEN f.texture_sizes
    ELSE Loc_texture_sizes(f.location)

\* File::image_ref
File_image_ref(f) ==
    IF f.image_ref # None THEN f.image_ref.v ELSE image_ref(f.location)

\* ------------------------------------------------------------------ init

\* Slot layouts of the aggregate container at load.
Owned == [i \in Sprites |-> OrigData(i)]
RefTo1 == [Owned EXCEPT ![0] = SlotRef(1)]
DoubleRef == [Owned EXCEPT ![0] = SlotRef(1), ![1] = SlotRef(0)]
SelfRef == [Owned EXCEPT ![0] = SlotRef(0)]

\* The asset trees opened: the slots of SD/mainSD.anim and the single-sprite
\* files shipped beside it.
World(slots, shipped) == [slots |-> slots, shipped |-> shipped]
InitWorlds ==
    { World(Owned, {<<0, "Hd">>, <<1, "Hd2">>}),
      World(RefTo1, {}),
      World(DoubleRef, {}),
      World(SelfRef, {}) }

KeyPath(k) == hd_filename(k[1], IF k[2] = "Hd2" THEN "HD2/anim" ELSE "anim")

InitDisk(w) ==
    [p \in Paths |->
        IF p = MainSdPath THEN MainSdFile(w.slots)
        ELSE IF \E k \in w.shipped : p = KeyPath(k)
             THEN LET k == CHOOSE k \in w.shipped : p = KeyPath(k)
                  IN AnimFile(OrigValues(k[1], k[2]), OrigFrames(k[1], k[2]),
                              OrigTextures(k[1], k[2]))
             ELSE NoFile]

\* What a call returned. For save: the error it returned, the (temp, original)
\* pairs it had collected, the temporary files it created and the number of
\* renames it completed.
Report(op, res, err, temp_files, created, renamed) ==
    [op |-> op, res |-> res, err |-> err,
     temp_files |-> temp_files, created |-> created, renamed |-> renamed]
Call(op, res) == Report(op, res, "none", <<>>, {}, 0)

\* Files::init on a path inside a directory tree whose SD/mainSD.anim loads.
InitIn(w) ==
    /\ sprites = [i \in DOMAIN w.slots |-> AnimSet(i)]
    /\ mainsd_anim = Some([path |-> MainSdPath, sd |-> MainSdFile(w.slots)])
    /\ open_files = <<>>
    /\ edits = EmptyMap
    /\ disk = InitDisk(w)
    /\ saves = 0
    /\ last = Call("init", "Ok")

Init == \E w \in InitWorlds : InitIn(w)

\* ------------------------------------------------------------------ setters

\* What the setters see of a key: `file_location(..).ok().and_then(|x| x)`.
Resolve(sprite, ty, io) ==
    file_location(mainsd_anim, open_files, sprites, disk, sprite, ty, io)

\* The original of a resolved key, None when the key does not resolve.
OrigOf(fl) == IF fl.res = "Some" THEN values_or_ref(fl.loc) ELSE None

\* The outcomes of opening the key's file that the call can meet: none to
\* choose when the key is SD or already cached.
IoFor(sprite, ty) ==
    IF ty = "Sd" \/ CachePosition(open_files, sprite, ty) # {}
       \/ separate_file_path(sprites, disk, sprite, ty) = None
    THEN {"ok"} ELSE IoOutcomes

\* SetRefEnabled without the test of the variant.
SetRefEnabledAnyVariant(key, orig, enabled) ==
    /\ edits' = IF orig = None THEN edits
                ELSE IF (orig.v.kind = "Ref") = enabled THEN MapRemove(edits, key)
                ELSE MapInsert(edits, key,
                               IF enabled THEN EditRef(0)
                               ELSE EditValues(SentinelValues, None))
    /\ last' = Call("set_ref_enabled", IF key[2] # "Sd" \/ orig = None THEN "Ignored" ELSE "Ok")
    /\ UNCHANGED <<sprites, mainsd_anim, open_files, disk, saves>>

\* SetRefEnabled with the explicit values reset to zeroes.
SetRefEnabledZeroed(key, orig, enabled) ==
    /\ edits' = IF key[2] # "Sd" \/ orig = None THEN edits
                ELSE IF (orig.v.kind = "Ref") = enabled THEN MapRemove(edits, key)
                ELSE MapInsert(edits, key,
                               IF enabled THEN EditRef(0)
                               ELSE EditValues(SpriteValues(0, 0, 0), None))
    /\ last' = Call("set_ref_enabled", IF key[2] # "Sd" \/ orig = None THEN "Ignored" ELSE "Ok")
    /\ UNCHANGED <<sprites, mainsd_anim, open_files, disk, saves>>

\* SetRefEnabled leaving an edit of the kind asked for as it is.
SetRefEnabledKeeping(key, orig, enabled) ==
    /\ edits' = IF key[2] # "Sd" \/ orig = None THEN edits
                ELSE IF (orig.v.kind = "Ref") = enabled THEN MapRemove(edits, key)
                ELSE IF key \in DOMAIN edits /\ (edits[key].kind = "Ref") = enabled THEN edits
                ELSE MapInsert(edits, key,
                               IF enabled THEN EditRef(0)
                               ELSE EditValues(SentinelValues, None))
    /\ last' = Call("set_ref_enabled", IF key[2] # "Sd" \/ orig = None THEN "Ignored" ELSE "Ok")
    /\ UNCHANGED <<sprites, mainsd_anim, open_files, disk, saves>>

\* The body of set_ref_enabled once the original `orig` of the key is known.
SetRefEnabled(key, orig, enabled) ==
    /\ edits' = IF key[2] # "Sd" \/ orig = None THEN edits
                ELSE IF (orig.v.kind = "Ref") = enabled THEN MapRemove(edits, key)
                ELSE MapInsert(edits, key,
                               IF enabled THEN EditRef(0)
                               ELSE EditValues(SentinelValues, None))
    /\ last' = Call("set_ref_enabled", IF key[2] # "Sd" \/ orig = None THEN "Ignored" ELSE "Ok")
    /\ UNCHANGED <<sprites, mainsd_anim, open_files, disk, saves>>

set_ref_enabled(sprite, ty, enabled) ==
    SetRefEnabled(<<sprite, ty>>, OrigOf(Resolve(sprite, ty, "ok")), enabled)

\* SetRefImg with the reference stored only under a key that holds no edit.
SetRefImgOrInsert(key, fl, image) ==
    /\ open_files' = fl.open_files
    /\ edits' = IF fl.res # "Some" THEN edits
                ELSE IF image_ref(fl.loc) = Some(image) THEN MapRemove(edits, key)
                ELSE IF key \in DOMAIN edits THEN edits
                ELSE MapInsert(edits, key, EditRef(image))
    /\ last' = Call("set_ref_img", IF fl.res # "Some" THEN "Ignored" ELSE "Ok")
    /\ UNCHANGED <<sprites, mainsd_anim, disk, saves>>

\* SetRefImg with the reference stored whatever the original target is.
SetRefImgNoCollapse(key, fl, image) ==
    /\ open_files' = fl.open_files
    /\ edits' = IF fl.res # "Some" THEN edits ELSE MapInsert(edits, key, EditRef(image))
    /\ last' = Call("set_ref_img", IF fl.res # "Some" THEN "Ignored" ELSE "Ok")
    /\ UNCHANGED <<sprites, mainsd_anim, disk, saves>>

\* The body of set_ref_img once the key is located.
SetRefImg(key, fl, image) ==
    /\ open_files' = fl.open_files
    /\ edits' = IF fl.res # "Some" THEN edits
                ELSE IF image_ref(fl.loc) = Some(image) THEN MapRemove(edits, key)
                ELSE MapInsert(edits, key, EditRef(image))
    /\ last' = Call("set_ref_img", IF fl.res # "Some" THEN "Ignored" ELSE "Ok")
    /\ UNCHANGED <<sprites, mainsd_anim, disk, saves>>

set_ref_img(sprite, ty, image, io) ==
    SetRefImg(<<sprite, ty>>, Resolve(sprite, ty, io), image)

\* `entry.or_insert_with(..)`: the edit the key holds, or one seeded from the original.
OrInsertWith(key, orig) ==
    IF key \in DOMAIN edits THEN edits[key]
    ELSE IF orig.kind = "Values" THEN EditValues(orig.values, None)
    ELSE EditRef(orig.img)

\* `vals.tex_changes = Some(changes)` on a Values edit; a Ref edit is left as it is.
AttachTex(values, changes) ==
    IF values.kind = "Values" THEN [values EXCEPT !.tex_changes = Some(changes)] ELSE values

\* The body of set_tex_changes once the key is located.
SetTexChanges(key, fl, orig, changes) ==
    /\ open_files' = fl.open_files
    /\ edits' = IF orig = None THEN edits
                ELSE MapInsert(edits, key, AttachTex(OrInsertWith(key, orig.v), changes))
    /\ last' = Call("set_tex_changes", IF orig = None THEN "Ignored" ELSE "Ok")
    /\ UNCHANGED <<sprites, mainsd_anim, disk, saves>>

SetTexChangesAt(key, fl, changes) == SetTexChanges(key, fl, OrigOf(fl), changes)

set_tex_changes(sprite, ty, changes, io) ==
    SetTexChangesAt(<<sprite, ty>>, Resolve(sprite, ty, io), changes)

\* The mutators the UI passes to update_file: each writes one field.
SetWidth(values, w) == [values EXCEPT !.width = w]

\* `fun(&mut values.values)` on a Values edit; a Ref edit is left as it is.
Mutate(values, w) ==
    IF values.kind = "Values" THEN [values EXCEPT !.values = SetWidth(values.values, w)]
    ELSE values

\* The `unchanged` test without its look at the texture change.
UnchangedIgnoringTex(values, orig) ==
    IF values.kind = "Ref" THEN orig.kind = "Ref" /\ values.img = orig.img
    ELSE /\ orig.kind = "Values"
         /\ values.values = orig.values

\* The `unchanged` test of update_file: the edit says what the original says.
Unchanged(values, orig) ==
    IF values.kind = "Ref" THEN orig.kind = "Ref" /\ values.img = orig.img
    ELSE /\ values.tex_changes = None
         /\ orig.kind = "Values"
         /\ values.values = orig.values

\* Collapse with the edit stored whether it is unchanged or not.
CollapseNever(key, values, orig) == MapInsert(edits, key, values)

\* The overlay with the mutated edit stored, or removed when it is unchanged.
Collapse(key, values, orig) ==
    IF Unchanged(values, orig) THEN MapRemove(edits, key) ELSE MapInsert(edits, key, values)

\* UpdateFile clearing the overlay where it should remove the key.
UpdateFileClearing(key, fl, orig, w) ==
    /\ open_files' = fl.open_files
    /\ edits' = IF orig = None THEN edits
                ELSE IF Unchanged(Mutate(OrInsertWith(key, orig.v), w), orig.v) THEN EmptyMap
                ELSE MapInsert(edits, key, Mutate(OrInsertWith(key, orig.v), w))
    /\ last' = Call("update_file", IF orig = None THEN "Ignored" ELSE "Ok")
    /\ UNCHANGED <<sprites, mainsd_anim, disk, saves>>

\* The body of update_file once the key is located.
UpdateFile(key, fl, orig, w) ==
    /\ open_files' = fl.open_files
    /\ edits' = IF orig = None THEN edits
                ELSE Collapse(key, Mutate(OrInsertWith(key, orig.v), w), orig.v)
    /\ last' = Call("update_file", IF orig = None THEN "Ignored" ELSE "Ok")
    /\ UNCHANGED <<sprites, mainsd_anim, disk, saves>>

UpdateFileAt(key, fl, w) == UpdateFile(key, fl, OrigOf(fl), w)

update_file(sprite, ty, w, io) ==
    UpdateFileAt(<<sprite, ty>>, Resolve(sprite, ty, io), w)

\* has_changes reporting an overlay of several entries only.
has_changes_Several == Cardinality(DOMAIN edits) > 1

\* Files::has_changes
has_changes == DOMAIN edits # {}

\* Files::file: the lookup leaves its mark on the cache only.
Looked(f) ==
    /\ open_files' = f.open_files
    /\ last' = Call("file", f.res)
    /\ UNCHANGED <<sprites, mainsd_anim, edits, disk, saves>>

file(sprite, ty, io) ==
    Looked(FileIn(edits, mainsd_anim, open_files, sprites, disk, sprite, ty, io))

\* close_opened dropping the pending edits with the cache.
close_opened_DroppingEdits ==
    /\ open_files' = <<>>
    /\ edits' = EmptyMap
    /\ last' = Call("close_opened", "Ok")
    /\ UNCHANGED <<sprites, mainsd_anim, disk, saves>>

\* Files::close_opened
close_opened ==
    /\ open_files' = <<>>
    /\ last' = Call("close_opened", "Ok")
    /\ UNCHANGED <<sprites, mainsd_anim, edits, disk, saves>>

\* ------------------------------------------------------------------ save

\* The orders in which `self.edits.iter()` can yield the keys of the overlay.
Orders(keys) ==
    {o \in [1 .. Cardinality(keys) -> keys] : \A k \in keys : \E n \in DOMAIN o : o[n] = k}

\* The SD edits and SD texture changes save() queues for the aggregate container.
SdEdits(ed) ==
    [i \in {k[1] : k \in {x \in DOMAIN ed : x[2] = "Sd"}} |->
        IF ed[<<i, "Sd">>].kind = "Ref" THEN VorRef(ed[<<i, "Sd">>].img)
        ELSE VorValues(ed[<<i, "Sd">>].values)]

SdTextures(ed) ==
    [i \in {k[1] : k \in {x \in DOMAIN ed : x[2] = "Sd" /\ ed[x].kind = "Values"
                                            /\ ed[x].tex_changes # None}} |->
        ed[<<i, "Sd">>].tex_changes.v]

\* What the environment does to one save(): the step of the write phase it
\* fails (`wat` is the position of the key in the iteration, one past the last
\* for the aggregate container), the rename it fails, whether the reload of
\* the aggregate container fails.
Fault(wat, wkind, rat, load) == [wat |-> wat, wkind |-> wkind, rat |-> rat, load |-> load]

Faults(order) ==
    {Fault(0, "none", r, l) : r \in 0 .. (Len(order) + 1), l \in BOOLEAN}
    \cup {Fault(n, k, 0, FALSE) :
            n \in {m \in DOMAIN order : order[m][2] # "Sd"},
            k \in {"open", "read", "create", "write"}}
    \cup {Fault(Len(order) + 1, k, 0, FALSE) : k \in {"create", "write"}}

\* The write phase as far as it got: the disk, the collected (temp, original)
\* pairs, the temporary files created and the error that ended it.
Written(files, temp_files, created, err) ==
    [disk |-> files, temp_files |-> temp_files, created |-> created, err |-> err]

Pair(temp, dest) == [temp |-> temp, dest |-> dest]

\* WriteSeparate with the written file renamed over its original at once.
WriteSeparateCommitting(key, edit, fk, acc) ==
    LET path == separate_file_path(sprites, acc.disk, key[1], key[2])
    IN IF path = None THEN [acc EXCEPT !.err = "no_path"]
       ELSE IF fk = "open" THEN [acc EXCEPT !.err = "open"]
       ELSE IF fk = "read" \/ acc.disk[path.v].kind # "Anim" THEN [acc EXCEPT !.err = "read"]
       ELSE IF edit.kind = "Ref" THEN [acc EXCEPT !.err = "ref_edit"]
       ELSE IF fk = "create" THEN [acc EXCEPT !.err = "create"]
       ELSE IF fk = "write"
       THEN Written([acc.disk EXCEPT ![temp_file_path(path.v)] = Partial],
                    Append(acc.temp_files, Pair(temp_file_path(path.v), path.v)),
                    acc.created \cup {temp_file_path(path.v)}, "write")
       ELSE Written([acc.disk EXCEPT ![path.v] =
                        Anim_write_patched(acc.disk[path.v], edit.values, edit.tex_changes)],
                    acc.temp_files, acc.created \cup {temp_file_path(path.v)}, "none")

\* One HD/HD2 key of the loop of save(); `fk` is the step the environment fails.
WriteSeparate(key, edit, fk, acc) ==
    LET path == separate_file_path(sprites, acc.disk, key[1], key[2])
    IN IF path = None THEN [acc EXCEPT !.err = "no_path"]
       ELSE IF fk = "open" THEN [acc EXCEPT !.err = "open"]
       ELSE IF fk = "read" \/ acc.disk[path.v].kind # "Anim" THEN [acc EXCEPT !.err = "read"]
       ELSE IF edit.kind = "Ref" THEN [acc EXCEPT !.err = "ref_edit"]
       ELSE IF fk = "create" THEN [acc EXCEPT !.err = "create"]
       ELSE LET out_path == temp_file_path(path.v)
                anim == acc.disk[path.v]
                pushed == Append(acc.temp_files, Pair(out_path, path.v))
            IN IF fk = "write"
               THEN Written([acc.disk EXCEPT ![out_path] = Partial], pushed,
                            acc.created \cup {out_path}, "write")
               ELSE Written([acc.disk EXCEPT ![out_path] =
                                Anim_write_patched(anim, edit.values, edit.tex_changes)],
                            pushed, acc.created \cup {out_path}, "none")

RECURSIVE WriteLoop(_, _, _, _)
WriteLoop(order, n, fault, acc) ==
    IF n > Len(order) \/ acc.err # "none" THEN acc
    ELSE IF order[n][2] = "Sd" THEN WriteLoop(order, n + 1, fault, acc)
    ELSE WriteLoop(order, n + 1, fault,
                   WriteSeparate(order[n], edits[order[n]],
                                 IF fault.wat = n THEN fault.wkind ELSE "none", acc))

\* The aggregate container, written once when SD edits are queued.
WriteMainSd(fk, acc) ==
    IF acc.err # "none" \/ DOMAIN SdEdits(edits) = {} \/ mainsd_anim = None THEN acc
    ELSE LET sd_path == mainsd_anim.v.path
             out_path == temp_file_path(sd_path)
         IN IF fk = "create" THEN [acc EXCEPT !.err = "create"]
            ELSE IF fk = "write"
            THEN Written([acc.disk EXCEPT ![out_path] = Partial], acc.temp_files,
                         acc.created \cup {out_path}, "write")
            ELSE Written([acc.disk EXCEPT ![out_path] =
                             MainSd_write_patched(mainsd_anim.v.sd, SdEdits(edits),
                                                  SdTextures(edits))],
                         Append(acc.temp_files, Pair(out_path, sd_path)),
                         acc.created \cup {out_path}, "none")

WritePhase(order, fault) ==
    WriteMainSd(IF fault.wat = Len(order) + 1 THEN fault.wkind ELSE "none",
                WriteLoop(order, 1, fault, Written(disk, <<>>, {}, "none")))

\* fs::rename
Rename(files, temp, dest) == [files EXCEPT ![dest] = files[temp], ![temp] = NoFile]

\* The renames of the commit phase: the disk after them and how many were made.
RECURSIVE RenameLoop(_, _, _, _)
RenameLoop(temp_files, n, rat, files) ==
    IF n > Len(temp_files) THEN [disk |-> files, renamed |-> Len(temp_files), err |-> "none"]
    ELSE IF rat = n THEN [disk |-> files, renamed |-> n - 1, err |-> "rename"]
    ELSE RenameLoop(temp_files, n + 1, rat,
                    Rename(files, temp_files[n].temp, temp_files[n].dest))

\* load_mainsd
load_mainsd(files, path, fails) ==
    IF fails \/ files[path].kind # "MainSd" THEN None ELSE Some(files[path])

\* The aggregate container handle after the commit phase: dropped when the
\* reload fails.
Reload(files, fails) ==
    IF mainsd_anim = None THEN None
    ELSE IF load_mainsd(files, mainsd_anim.v.path, fails) = None THEN None
    ELSE Some([path |-> mainsd_anim.v.path, sd |-> files[mainsd_anim.v.path]])

\* What save() returns after the renames `c`: the `?` on the reload returns its
\* error at once, else `result` is returned.
Returned(w, c, reloaded) ==
    IF mainsd_anim # None /\ reloaded = None
    THEN Report("save", "Err", "load", w.temp_files, w.created, c.renamed)
    ELSE Report("save", IF c.err # "none" THEN "Err" ELSE "Ok", c.err,
                w.temp_files, w.created, c.renamed)

\* Finish with the overlay cleared whatever the renames did.
FinishClearing(w, c, reloaded) ==
    /\ disk' = c.disk
    /\ open_files' = <<>>
    /\ mainsd_anim' = reloaded
    /\ edits' = EmptyMap
    /\ last' = Returned(w, c, reloaded)

\* Finish with the cache left as it was.
FinishKeepingCache(w, c, reloaded) ==
    /\ disk' = c.disk
    /\ open_files' = open_files
    /\ mainsd_anim' = reloaded
    /\ edits' = IF Returned(w, c, reloaded).res = "Ok" THEN EmptyMap ELSE edits
    /\ last' = Returned(w, c, reloaded)

\* The end of save() after the renames `c` of the files collected by `w`: the
\* cache is closed and the handle taken before the renames, the overlay is
\* cleared when `result` is Ok and the reload has not returned first.
Finish(w, c, reloaded) ==
    /\ disk' = c.disk
    /\ open_files' = <<>>
    /\ mainsd_anim' = reloaded
    /\ edits' = IF Returned(w, c, reloaded).res = "Ok" THEN EmptyMap ELSE edits
    /\ last' = Returned(w, c, reloaded)

Committed(w, c, fault) == Finish(w, c, Reload(c.disk, fault.load))

\* Commit with the cache closed before the write phase.
CommitClosingFirst(w, fault) ==
    IF w.err # "none"
    THEN /\ disk' = w.disk
         /\ open_files' = <<>>
         /\ UNCHANGED <<mainsd_anim, edits>>
         /\ last' = Report("save", "Err", w.err, w.temp_files, w.created, 0)
    ELSE Committed(w, RenameLoop(w.temp_files, 1, fault.rat, w.disk), fault)

\* The commit phase of save() after the write phase `w`; a write phase that
\* failed has returned its error already.
Commit(w, fault) ==
    IF w.err # "none"
    THEN /\ disk' = w.disk
         /\ UNCHANGED <<mainsd_anim, open_files, edits>>
         /\ last' = Report("save", "Err", w.err, w.temp_files, w.created, 0)
    ELSE Committed(w, RenameLoop(w.temp_files, 1, fault.rat, w.disk), fault)

\* Files::save, with the overlay iterated in `order` under the fault `fault`.
save(order, fault) ==
    /\ saves' = saves + 1
    /\ UNCHANGED sprites
    /\ Commit(WritePhase(order, fault), fault)

\* ------------------------------------------------------------------ behaviours

\* One save() ends a behaviour; the overlay holds at most MaxEdits edits.
Editing == saves = 0
Bounded == Cardinality(DOMAIN edits') <= MaxEdits

Next ==
    \/ /\ Editing
       /\ \E s \in Sprites, ty \in SpriteTypes, e \in BOOLEAN : set_ref_enabled(s, ty, e)
       /\ Bounded
    \/ /\ Editing
       /\ \E s \in Sprites, ty \in SpriteTypes, t \in Sprites :
            \E io \in IoFor(s, ty) : set_ref_img(s, ty, t, io)
       /\ Bounded
    \/ /\ Editing
       /\ \E s \in Sprites, ty \in SpriteTypes, c \in TexChangesIn :
            \E io \in IoFor(s, ty) : set_tex_changes(s, ty, c, io)
       /\ Bounded
    \/ /\ Editing
       /\ \E s \in Sprites, ty \in SpriteTypes, w \in Widths :
            \E io \in IoFor(s, ty) : update_file(s, ty, w, io)
       /\ Bounded
    \/ /\ Editing
       /\ \E s \in Sprites, ty \in SpriteTypes : \E io \in IoFor(s, ty) : file(s, ty, io)
    \/ /\ Editing
       /\ close_opened
    \/ /\ Editing
       /\ \E order \in Orders(DOMAIN edits) : \E fault \in Faults(order) : save(order, fault)

Spec == Init /\ [][Next]_vars

\* ------------------------------------------------------------------ saving again

\* The number of calls of save() in one behaviour of SpecResave.
MaxSaves == 2

\* save() is called again on what the save before it left, whatever it returned.
Resaving == 1 <= saves /\ saves < MaxSaves

NextResave ==
    \/ Next
    \/ /\ Resaving
       /\ \E order \in Orders(DOMAIN edits) : \E fault \in Faults(order) : save(order, fault)

SpecResave == Init /\ [][NextResave]_vars

\* ------------------------------------------------------------------ end to end

\* Directory roots whose aggregate container holds two owned sprites, with
\* anim/main_000.anim and anim/main_001.anim present.
E2ESlots(w0, w1) ==
    [i \in Sprites |->
        SlotData(SpriteValues(i, IF i = 0 THEN w0 ELSE w1, 1),
                 OrigFrames(i, "Sd"), OrigTextures(i, "Sd"))]

E2EWorlds ==
    { World(E2ESlots(w0, w1), {<<0, "Hd">>, <<1, "Hd">>} \cup hd2) :
        w0 \in Widths, w1 \in Widths, hd2 \in SUBSET {<<0, "Hd2">>, <<1, "Hd2">>} }

InitE2E == \E w \in E2EWorlds : InitIn(w)

\* set_ref_enabled(0, Sd, true), then set_ref_img(0, Sd, 1), then save().
NextE2E ==
    \/ /\ last.op = "init"
       /\ set_ref_enabled(0, "Sd", TRUE)
    \/ /\ last.op = "set_ref_enabled"
       /\ set_ref_img(0, "Sd", 1, "ok")
    \/ /\ last.op = "set_ref_img"
       /\ \E order \in Orders(DOMAIN edits) : \E fault \in Faults(order) : save(order, fault)

SpecE2E == InitE2E /\ [][NextE2E]_vars

\* ------------------------------------------------------------------ reference chains

\* Aggregate containers of three sprites: a chain of references, a cycle of
\* references beside a sprite that refers to itself, a reference beside owned
\* sprites.
Chain3 == [i \in ChainSprites |-> IF i = 2 THEN OrigData(2) ELSE SlotRef(i + 1)]
Loop3 == [i \in ChainSprites |-> IF i = 0 THEN SlotRef(1) ELSE IF i = 1 THEN SlotRef(0) ELSE SlotRef(2)]
Fan3 == [i \in ChainSprites |-> IF i = 0 THEN SlotRef(1) ELSE OrigData(i)]

ViewWorlds == {World(Chain3, {}), World(Loop3, {}), World(Fan3, {})}

InitView == \E w \in ViewWorlds : InitIn(w)

\* The setters and the lookup on the SD keys of the container.
NextView ==
    \/ /\ \E s \in ChainSprites, e \in BOOLEAN : set_ref_enabled(s, "Sd", e)
       /\ Bounded
    \/ /\ \E s \in ChainSprites, t \in ChainSprites : set_ref_img(s, "Sd", t, "ok")
       /\ Bounded
    \/ /\ \E s \in ChainSprites, c \in TexChangesIn : set_tex_changes(s, "Sd", c, "ok")
       /\ Bounded
    \/ /\ \E s \in ChainSprites, w \in Widths : update_file(s, "Sd", w, "ok")
       /\ Bounded
    \/ \E s \in ChainSprites : file(s, "Sd", "ok")

SpecView == InitView /\ [][NextView]_vars

\* ------------------------------------------------------------------ textures

\* Result<anim::RgbaTexture, Error>; "Panic" is an index out of bounds.
TexOk(v) == [res |-> "Ok", v |-> v]
TexErr(err) == [res |-> "Err", err |-> err]
TexPanic == [res |-> "Panic"]

\* The texture layers every container of the model has per sprite.
LayerCount == 2

\* One overridden layer: its size and its bytes, which decode or do not.
LayerOf(size, bytes) == [size |-> size, bytes |-> bytes]

\* anim::read_texture on the bytes of an overridden layer
read_texture(tex) == IF tex.bytes = "junk" THEN TexErr("decode") ELSE TexOk(tex)

\* MainSd::texture / Anim::texture: an error for a sprite or a layer the
\* container does not have.
MainSd_texture(mainsd, sprite, layer) ==
    IF sprite \notin DOMAIN mainsd.sprites THEN TexErr("sprite")
    ELSE IF MainSd_resolve(mainsd, sprite) = None THEN TexErr("reference")
    ELSE IF layer >= LayerCount THEN TexErr("layer")
    ELSE TexOk(<<MainSd_resolve(mainsd, sprite).v.textures, layer>>)

Anim_texture(anim, layer) ==
    IF layer >= LayerCount THEN TexErr("layer") ELSE TexOk(<<anim.textures, layer>>)

\* `tex.get(layer).and_then(|x| x.as_ref())`
LayerGet(tex, layer) == IF layer + 1 \in DOMAIN tex THEN tex[layer + 1] ELSE None

\* File_texture with the overridden layers indexed, not looked up.
File_texture_Indexing(f, layer) ==
    IF f.textures # None
    THEN IF layer + 1 \notin DOMAIN f.textures.v THEN TexPanic
         ELSE IF f.textures.v[layer + 1] = None THEN TexErr("No texture for layer")
         ELSE read_texture(f.textures.v[layer + 1].v)
    ELSE IF f.image_ref # None /\ f.image_ref.v # None
    THEN IF f.location.kind = "MainSd"
         THEN MainSd_texture(f.location.mainsd, f.image_ref.v.v, layer)
         ELSE TexErr("Ref in HD sprite")
    ELSE IF f.location.kind = "MainSd"
         THEN MainSd_texture(f.location.mainsd, f.location.sprite, layer)
         ELSE Anim_texture(f.location.anim, layer)

\* File::texture
File_texture(f, layer) ==
    IF f.textures # None
    THEN IF LayerGet(f.textures.v, layer) = None THEN TexErr("No texture for layer")
         ELSE read_texture(LayerGet(f.textures.v, layer).v)
    ELSE IF f.image_ref # None /\ f.image_ref.v # None
    THEN IF f.location.kind = "MainSd"
         THEN MainSd_texture(f.location.mainsd, f.image_ref.v.v, layer)
         ELSE TexErr("Ref in HD sprite")
    ELSE IF f.location.kind = "MainSd"
         THEN MainSd_texture(f.location.mainsd, f.location.sprite, layer)
         ELSE Anim_texture(f.location.anim, layer)

\* The views texture() is asked on: every location, with the overridden
\* layers absent, empty, partly missing or undecodable, and with every
\* reference reported, one of them outside the container.
TextureLocations ==
    {LocMainSd(sprite, MainSdFile(slots)) : sprite \in Sprites, slots \in {Owned, RefTo1}}
    \cup {LocSeparate(AnimFile(OrigValues(0, "Hd"), OrigFrames(0, "Hd"), OrigTextures(0, "Hd")))}

TextureOverrides ==
    { None, Some(<<>>), Some(<<None, Some(LayerOf(1, "dds"))>>), Some(<<Some(LayerOf(1, "junk"))>>) }

ImageRefOverrides == {None, Some(None)} \cup {Some(Some(img)) : img \in ChainSprites}

TextureFiles ==
    {FileOf(loc, None, None, tex, None, img) :
        loc \in TextureLocations, tex \in TextureOverrides, img \in ImageRefOverrides}

AskedLayers == 0 .. LayerCount

\* The state of a function call: no asset tree is open.
NoFiles ==
    /\ sprites = <<>>
    /\ mainsd_anim = None
    /\ open_files = <<>>
    /\ edits = EmptyMap
    /\ disk = [p \in Paths |-> NoFile]
    /\ saves = 0

Asked(op, arg) == [op |-> op, arg |-> arg, res |-> None]
Answered(op, arg, res) == [op |-> op, arg |-> arg, res |-> res]

InitTexture ==
    /\ NoFiles
    /\ \E f \in TextureFiles, layer \in AskedLayers :
          last = Asked("view", [file |-> f, layer |-> layer])

texture ==
    /\ last.op = "view"
    /\ last' = Answered("texture", last.arg, File_texture(last.arg.file, last.arg.layer))
    /\ UNCHANGED <<sprites, mainsd_anim, open_files, edits, disk, saves>>

NextTexture == texture

SpecTexture == InitTexture /\ [][NextTexture]_vars

\* ------------------------------------------------------------------ path shapes

\* A std::path::Path as the sequence of its components; "/" is the root
\* directory and ".." the parent directory, every other one is a normal name.
MaxDepth == 4
Components ==
    {"/", "..", "a", "sd", "SD", "anim", "hd2", "HD2",
     "mainsd.anim", "mainSD.anim", "main_000.anim", "Main_000.anim"}

FilePaths ==
    UNION {{q \in [1 .. n -> Components] : \A i \in 2 .. n : q[i] # "/"} : n \in 0 .. MaxDepth}

\* Path::file_name: the last component when it is a normal name.
file_name(path) ==
    IF Len(path) = 0 \/ path[Len(path)] \in {"/", ".."} THEN None ELSE Some(path[Len(path)])

\* Path::parent: the path without its last component; none for the empty path
\* and for the root directory.
parent(path) ==
    IF Len(path) = 0 \/ path = <<"/">> THEN None ELSE Some(SubSeq(path, 1, Len(path) - 1))

\* str::to_ascii_lowercase on the names of the model.
to_ascii_lowercase(name) ==
    CASE name = "SD" -> "sd"
      [] name = "HD2" -> "hd2"
      [] name = "mainSD.anim" -> "mainsd.anim"
      [] name = "Main_000.anim" -> "main_000.anim"
      [] OTHER -> name

eq_ignore_ascii_case(a, b) == to_ascii_lowercase(a) = to_ascii_lowercase(b)

\* `filename.ends_with(".anim") && filename.starts_with("main_")`
is_main_anim(filename) == filename = "main_000.anim"

\* The second level above a per-sprite file: the root, or the root above hd2.
RootAbove(l2) ==
    IF file_name(l2) = None THEN None
    ELSE IF eq_ignore_ascii_case(file_name(l2).v, "hd2") THEN parent(l2)
    ELSE Some(l2)

file_root_from_file(path) ==
    IF file_name(path) = None \/ parent(path) = None THEN None
    ELSE IF file_name(parent(path).v) = None THEN None
    ELSE IF eq_ignore_ascii_case(file_name(path).v, "mainsd.anim")
    THEN IF eq_ignore_ascii_case(file_name(parent(path).v).v, "sd")
         THEN parent(parent(path).v) ELSE None
    ELSE IF is_main_anim(file_name(path).v)
    THEN IF eq_ignore_ascii_case(file_name(parent(path).v).v, "anim")
         THEN IF parent(parent(path).v) = None THEN None
              ELSE RootAbove(parent(parent(path).v).v)
         ELSE None
    ELSE None

InitRoot ==
    /\ NoFiles
    /\ \E path \in FilePaths : last = Asked("path", path)

root_from_file ==
    /\ last.op = "path"
    /\ last' = Answered("file_root_from_file", last.arg, file_root_from_file(last.arg))
    /\ UNCHANGED <<sprites, mainsd_anim, open_files, edits, disk, saves>>

NextRoot == root_from_file

SpecRoot == InitRoot /\ [][NextRoot]_vars

\* ------------------------------------------------------------------ discovery

\* SpriteFiles::MainSdOnly / SpriteFiles::SingleFile
MainSdOnly(i) == [kind |-> "MainSdOnly", image_id |-> i]
SingleFile(path) == [kind |-> "SingleFile", path |-> path]

\* The sprite count of a tree without SD/mainSD.anim.
DefaultSpriteCount == 999

\* The paths init is given and what it finds where it looks for the aggregate
\* container (<root>/SD/mainSD.anim, or the path itself): no file, a file
\* that does not load, a container of `count` sprites.
MaxInitDepth == 3
InitPaths == {path \in FilePaths : Len(path) <= MaxInitDepth}
Found(kind, count) == [kind |-> kind, count |-> count]
SdOutcomes == {Found("absent", 0), Found("broken", 0), Found("loads", 1), Found("loads", 2)}

is_mainsd(path) ==
    file_name(path) # None /\ eq_ignore_ascii_case(file_name(path).v, "mainsd.anim")

\* The Files value init returns, or its error.
FilesOf(catalogue, mainsd, root_path) ==
    [res |-> "Ok", sprites |-> catalogue, mainsd_anim |-> mainsd, root_path |-> root_path]
InitErr == [res |-> "Err", sprites |-> <<>>, mainsd_anim |-> None, root_path |-> None]

Loaded(path, count) ==
    Some([path |-> path, sd |-> MainSdFile([i \in 0 .. count - 1 |-> OrigData(i)])])

Files_init(one_filename, sd) ==
    IF file_root_from_file(one_filename) # None
    THEN IF sd.kind = "broken" THEN InitErr
         ELSE FilesOf([i \in 0 .. (IF sd.kind = "loads" THEN sd.count ELSE DefaultSpriteCount) - 1
                          |-> AnimSet(i)],
                      IF sd.kind = "loads" THEN Loaded(MainSdPath, sd.count) ELSE None,
                      file_root_from_file(one_filename))
    ELSE IF is_mainsd(one_filename)
    THEN IF sd.kind # "loads" THEN InitErr
         ELSE FilesOf([i \in 0 .. sd.count - 1 |-> MainSdOnly(i)],
                      Loaded(one_filename, sd.count), Some(one_filename))
    ELSE FilesOf([i \in {0} |-> SingleFile(one_filename)], None, Some(one_filename))

InitDiscovery ==
    /\ NoFiles
    /\ \E path \in InitPaths, sd \in SdOutcomes : last = Asked("open", [path |-> path, sd |-> sd])

\* Files::init: the Files value replaces the empty one unless init fails.
Opened(files) ==
    /\ sprites' = files.sprites
    /\ mainsd_anim' = files.mainsd_anim
    /\ last' = Answered("init", last.arg, files.res)
    /\ UNCHANGED <<open_files, edits, disk, saves>>

init ==
    /\ last.op = "open"
    /\ Opened(Files_init(last.arg.path, last.arg.sd))

NextDiscovery == init

SpecDiscovery == InitDiscovery /\ [][NextDiscovery]_vars

\* ------------------------------------------------------------------ exclusive access

\* The UI entry points that take the asset state with try_borrow_mut and
\* return when it is taken.
Guarded ==
    {"set_ref_enabled", "set_ref_img", "update_active_file", "changed_type_from_event",
     "select_sprite", "render_sprite", "frame_export_dialog", "frame_export",
     "frame_import_dialog"}

\* The UI entry points that take the asset state with borrow_mut or borrow.
Unguarded == {"open", "on_dirty_update", "frame_import"}

EntryPoints == Guarded \cup Unguarded

\* The handlers that emit widget signals (changed_ty) while they hold the state.
Emitters == {"set_ref_enabled", "set_ref_img", "changed_type_from_event", "select_sprite"}

\* The handlers those signals reach.
SignalHandlers ==
    {"set_ref_enabled", "set_ref_img", "update_active_file", "changed_type_from_event"}

Free == "none"
Aborted == "aborted"

\* What an entry point did, and who holds the RefCell of the asset state after it.
Access(op, res, holder) == [op |-> op, res |-> res, holder |-> holder]

Held == last.holder # Free

\* The entry points that can be triggered in the current state: any of them
\* from the main loop; while the export handler runs its message dialog, any
\* the nested main loop dispatches (the dirty-update action is only activated
\* by a handler that has given the state back); while a handler emits widget
\* signals, the handlers of those signals.
Dispatchable ==
    IF last.holder = Free THEN EntryPoints
    ELSE IF last.holder = "frame_export" THEN EntryPoints \ {"on_dirty_update"}
    ELSE IF last.holder \in Emitters THEN SignalHandlers
    ELSE {}

\* `_ => return` on a failed try_borrow_mut.
Rejected(op) ==
    /\ last' = Access(op, "Rejected", last.holder)
    /\ UNCHANGED <<sprites, mainsd_anim, open_files, edits, disk, saves>>

\* The early return of the reference handlers on a sprite type other than SD.
Ignored(op) ==
    /\ last' = Access(op, "Ignored", last.holder)
    /\ UNCHANGED <<sprites, mainsd_anim, open_files, edits, disk, saves>>

\* borrow_mut or borrow on a RefCell that is mutably borrowed: the panic
\* unwinds into the toolkit's callback and ends the process.
Panicked(op) ==
    /\ last' = Access(op, "Panic", Aborted)
    /\ UNCHANGED <<sprites, mainsd_anim, open_files, edits, disk, saves>>

\* The entry point took the state, left the overlay and the cache as given
\* and still holds the state.
Borrowing(op, ed, cache) ==
    /\ edits' = ed
    /\ open_files' = cache
    /\ last' = Access(op, "Ok", op)
    /\ UNCHANGED <<sprites, mainsd_anim, disk, saves>>

\* The entry point took the state and gave it back before it went on.
Borrowed(op, ed, cache) ==
    /\ edits' = ed
    /\ open_files' = cache
    /\ last' = Access(op, "Ok", Free)
    /\ UNCHANGED <<sprites, mainsd_anim, disk, saves>>

\* The overlay Files::set_ref_enabled leaves for an SD key.
RefEnabledEdits(key, orig, enabled) ==
    IF orig = None THEN edits
    ELSE IF (orig.v.kind = "Ref") = enabled THEN MapRemove(edits, key)
    ELSE MapInsert(edits, key, IF enabled THEN EditRef(0) ELSE EditValues(SentinelValues, None))

\* The overlay Files::set_ref_img leaves.
RefImgEdits(key, fl, image) ==
    IF fl.res # "Some" THEN edits
    ELSE IF image_ref(fl.loc) = Some(image) THEN MapRemove(edits, key)
    ELSE MapInsert(edits, key, EditRef(image))

\* The overlay Files::update_file leaves.
UpdateEdits(key, orig, w) ==
    IF orig = None THEN edits ELSE Collapse(key, Mutate(OrInsertWith(key, orig.v), w), orig.v)

\* The overlay Files::set_tex_changes leaves.
TexEdits(key, orig, changes) ==
    IF orig = None THEN edits
    ELSE MapInsert(edits, key, AttachTex(OrInsertWith(key, orig.v), changes))

\* The cache after Files::file on the selected key.
CacheAfterFile(sprite, ty, io) ==
    FileIn(edits, mainsd_anim, open_files, sprites, disk, sprite, ty, io).open_files

\* SpriteInfo::set_ref_enabled on the selected key.
SpriteInfo_set_ref_enabled(sprite, ty, enabled) ==
    IF ty # "Sd" THEN Ignored("set_ref_enabled")
    ELSE IF Held THEN Rejected("set_ref_enabled")
    ELSE Borrowing("set_ref_enabled",
                   RefEnabledEdits(<<sprite, ty>>, OrigOf(Resolve(sprite, ty, "ok")), enabled),
                   open_files)

\* SpriteInfo::set_ref_img on the selected key.
SpriteInfo_set_ref_img(sprite, ty, image) ==
    IF ty # "Sd" THEN Ignored("set_ref_img")
    ELSE IF Held THEN Rejected("set_ref_img")
    ELSE Borrowing("set_ref_img",
                   RefImgEdits(<<sprite, ty>>, Resolve(sprite, ty, "ok"), image),
                   open_files)

\* SpriteInfo::update_active_file on the selected key.
update_active_file(sprite, ty, w, io) ==
    IF Held THEN Rejected("update_active_file")
    ELSE Borrowed("update_active_file",
                  UpdateEdits(<<sprite, ty>>, OrigOf(Resolve(sprite, ty, io)), w),
                  Resolve(sprite, ty, io).open_files)

\* SpriteInfo::changed_type_from_event on the selected key.
changed_type_from_event(sprite, ty, io) ==
    IF Held THEN Rejected("changed_type_from_event")
    ELSE Borrowing("changed_type_from_event", edits, CacheAfterFile(sprite, ty, io))

\* SpriteInfo::select_sprite: the cache is closed, then the selected key is looked up.
select_sprite(sprite, ty, io) ==
    IF Held THEN Rejected("select_sprite")
    ELSE Borrowing("select_sprite", edits,
                   FileIn(edits, mainsd_anim, <<>>, sprites, disk, sprite, ty, io).open_files)

\* SpriteInfo::render_sprite: a failed try_borrow_mut is returned as an error.
render_sprite(sprite, ty, io) ==
    IF Held THEN Rejected("render_sprite")
    ELSE Borrowed("render_sprite", edits, CacheAfterFile(sprite, ty, io))

\* SpriteInfo::frame_export_dialog: the dialog is built from the selected key.
frame_export_dialog(sprite, ty, io) ==
    IF Held THEN Rejected("frame_export_dialog")
    ELSE Borrowed("frame_export_dialog", edits, CacheAfterFile(sprite, ty, io))

\* The OK handler of the export dialog: it holds the state while its message
\* dialog runs a nested main loop.
frame_export(sprite, ty, io) ==
    IF Held THEN Rejected("frame_export")
    ELSE Borrowing("frame_export", edits, CacheAfterFile(sprite, ty, io))

\* frame_import_dialog: the dialog is built from the selected key.
frame_import_dialog(sprite, ty, io) ==
    IF Held THEN Rejected("frame_import_dialog")
    ELSE Borrowed("frame_import_dialog", edits, CacheAfterFile(sprite, ty, io))

\* The OK handler of the import dialog: `sprite_info.files.borrow_mut()`.
frame_import(sprite, ty, changes, io) ==
    IF Held THEN Panicked("frame_import")
    ELSE Borrowed("frame_import",
                  TexEdits(<<sprite, ty>>, OrigOf(Resolve(sprite, ty, io)), changes),
                  Resolve(sprite, ty, io).open_files)

\* open on the tree that is open: `*files = f` under `state.files.borrow_mut()`.
open ==
    IF Held THEN Panicked("open")
    ELSE Borrowed("open", EmptyMap, <<>>)

\* The dirty-update callback: `state.files.borrow()` to read the root path.
on_dirty_update ==
    IF Held THEN Panicked("on_dirty_update")
    ELSE Borrowed("on_dirty_update", edits, open_files)

\* The handler that holds the state returns, and its borrow is dropped.
handler_returns ==
    /\ last.holder \in Guarded
    /\ last' = Access("return", "Ok", Free)
    /\ UNCHANGED <<sprites, mainsd_anim, open_files, edits, disk, saves>>

\* The window after a tree is opened, nothing holding the state.
InitAccess ==
    /\ \E w \in InitWorlds :
        /\ sprites = [i \in DOMAIN w.slots |-> AnimSet(i)]
        /\ mainsd_anim = Some([path |-> MainSdPath, sd |-> MainSdFile(w.slots)])
        /\ disk = InitDisk(w)
    /\ open_files = <<>>
    /\ edits = EmptyMap
    /\ saves = 0
    /\ last = Access("open", "Ok", Free)

Triggered(op) == op \in Dispatchable

NextAccess ==
    \/ /\ Triggered("set_ref_enabled")
       /\ \E s \in Sprites, ty \in SpriteTypes, e \in BOOLEAN : SpriteInfo_set_ref_enabled(s, ty, e)
       /\ Bounded
    \/ /\ Triggered("set_ref_img")
       /\ \E s \in Sprites, ty \in SpriteTypes, t \in Sprites : SpriteInfo_set_ref_img(s, ty, t)
       /\ Bounded
    \/ /\ Triggered("update_active_file")
       /\ \E s \in Sprites, ty \in SpriteTypes, w \in Widths :
            \E io \in IoFor(s, ty) : update_active_file(s, ty, w, io)
       /\ Bounded
    \/ /\ Triggered("changed_type_from_event")
       /\ \E s \in Sprites, ty \in SpriteTypes :
            \E io \in IoFor(s, ty) : changed_type_from_event(s, ty, io)
    \/ /\ Triggered("select_sprite")
       /\ \E s \in Sprites, ty \in SpriteTypes : \E io \in IoFor(s, ty) : select_sprite(s, ty, io)
    \/ /\ Triggered("render_sprite")
       /\ \E s \in Sprites, ty \in SpriteTypes : \E io \in IoFor(s, ty) : render_sprite(s, ty, io)
    \/ /\ Triggered("frame_export_dialog")
       /\ \E s \in Sprites, ty \in SpriteTypes :
            \E io \in IoFor(s, ty) : frame_export_dialog(s, ty, io)
    \/ /\ Triggered("frame_export")
       /\ \E s \in Sprites, ty \in SpriteTypes : \E io \in IoFor(s, ty) : frame_export(s, ty, io)
    \/ /\ Triggered("frame_import_dialog")
       /\ \E s \in Sprites, ty \in SpriteTypes :
            \E io \in IoFor(s, ty) : frame_import_dialog(s, ty, io)
    \/ /\ Triggered("frame_import")
       /\ \E s \in Sprites, ty \in SpriteTypes, c \in TexChangesIn :
            \E io \in IoFor(s, ty) : frame_import(s, ty, c, io)
       /\ Bounded
    \/ /\ Triggered("open")
       /\ open
    \/ /\ Triggered("on_dirty_update")
       /\ on_dirty_update
    \/ handler_returns

SpecAccess == InitAccess /\ [][NextAccess]_vars

\* ------------------------------------------------------------------ frame import

\* The largest width and height of the decoded images.
MaxSide == 3

\* The alpha values of the decoded images: transparent or not.
Alphas == {0, 1}

\* A decoded PNG as import_frames passes it: RGBA rows, width and height of
\* at least one pixel. Every pixel has a colour of its own, so that a pixel
\* copied from the wrong place shows.
Image(width, height, alpha) ==
    [data |-> [i \in 1 .. width * height |-> [rgb |-> i, a |-> alpha[i]]],
     width |-> width, height |-> height]

FrameCoords(x_offset, y_offset, width, height) ==
    [x_offset |-> x_offset, y_offset |-> y_offset, width |-> width, height |-> height]

BoundedBox(data, coords) == [data |-> data, coords |-> coords]

\* The pixel `data[(y * width + x) * 4 ..]`.
PixelAt(data, width, x, y) == data[y * width + x + 1]

\* `x.chunks(4).all(|x| x[3] == 0)` on the row y.
RowIsClear(data, width, y) == \A x \in 0 .. width - 1 : PixelAt(data, width, x, y).a = 0

\* `(top..bottom).all(|y| data[(y * width + x) as usize * 4 + 3] == 0)`
ColumnIsClear(data, width, x, top, bottom) ==
    \A y \in top .. bottom - 1 : PixelAt(data, width, x, y).a = 0

\* `position` and `find`: the first of the indices that qualify.
First(indices) == CHOOSE m \in indices : \A n \in indices : m <= n

\* The copy loop: out_height rows of out_width pixels, read from `in_pos` on.
CopyRows(data, width, top, left, out_width, out_height) ==
    [i \in 1 .. out_width * out_height |->
        data[(top * width + left) + ((i - 1) \div out_width) * width
             + ((i - 1) % out_width) + 1]]

\* The box with the columns left and right as given.
BoxBetween(data, width, top, bottom, left, right) ==
    BoundedBox(CopyRows(data, width, top, left, right - left, bottom - top),
               FrameCoords(left, top, right - left, bottom - top))

\* The box of the rows with alpha, left and right found among the columns.
BoxOfRows(data, width, top, bottom) ==
    BoxBetween(data, width, top, bottom,
               First({x \in 0 .. width - 1 : ~ColumnIsClear(data, width, x, top, bottom)}),
               1 + (width - 1
                    - First({p \in 0 .. width - 1 :
                               ~ColumnIsClear(data, width, width - 1 - p, top, bottom)})))

\* rgba_bounding_box cropping the rows only.
rgba_bounding_box_FullWidth(data, width, height) ==
    IF \A y \in 0 .. height - 1 : RowIsClear(data, width, y)
    THEN BoundedBox(<<>>, FrameCoords(0, 0, 0, 0))
    ELSE BoxBetween(data, width,
                    First({y \in 0 .. height - 1 : ~RowIsClear(data, width, y)}),
                    height - First({p \in 0 .. height - 1 :
                                      ~RowIsClear(data, width, height - 1 - p)}),
                    0, width)

rgba_bounding_box(data, width, height) ==
    IF \A y \in 0 .. height - 1 : RowIsClear(data, width, y)
    THEN BoundedBox(<<>>, FrameCoords(0, 0, 0, 0))
    ELSE BoxOfRows(data, width,
                   First({y \in 0 .. height - 1 : ~RowIsClear(data, width, y)}),
                   height - First({p \in 0 .. height - 1 :
                                     ~RowIsClear(data, width, height - 1 - p)}))

InitBox ==
    /\ NoFiles
    /\ \E width \in 1 .. MaxSide, height \in 1 .. MaxSide :
          \E alpha \in [1 .. width * height -> Alphas] :
              last = Asked("decoded", Image(width, height, alpha))

bounding_box ==
    /\ last.op = "decoded"
    /\ last' = Answered("rgba_bounding_box", last.arg,
                        rgba_bounding_box(last.arg.data, last.arg.width, last.arg.height))
    /\ UNCHANGED <<sprites, mainsd_anim, open_files, edits, disk, saves>>

NextBox == bounding_box

SpecBox == InitBox /\ [][NextBox]_vars

\* ------------------------------------------------------------------ resolving

\* The catalogues Files::init builds: a tree, a standalone aggregate
\* container, a single file.
Catalogues ==
    {[i \in Sprites |-> AnimSet(i)],
     [i \in Sprites |-> MainSdOnly(i)],
     [i \in {0} |-> SingleFile(hd_filename(0, "anim"))]}

\* The aggregate handles a catalogue can come with: a tree has one unless
\* SD/mainSD.anim is absent or a reload has failed, a standalone aggregate
\* has one, a single file has none.
HandlesOf(catalogue, slots) ==
    IF catalogue[0].kind = "SingleFile" THEN {None}
    ELSE IF catalogue[0].kind = "MainSdOnly"
    THEN {Some([path |-> MainSdPath, sd |-> MainSdFile(slots)])}
    ELSE {None, Some([path |-> MainSdPath, sd |-> MainSdFile(slots)])}

\* The overlays the lookups are made under: none, a Ref edit or a Values edit
\* on an SD key.
LookupEdits ==
    {EmptyMap}
    \cup {MapInsert(EmptyMap, <<s, "Sd">>, EditRef(t)) : s \in Sprites, t \in Sprites}
    \cup {MapInsert(EmptyMap, <<s, "Sd">>, EditValues(SentinelValues, None)) : s \in Sprites}

\* The indices asked for: those of the catalogue of a tree and one beyond.
AskedSprites == Sprites \cup {Cardinality(Sprites)}

InitResolve ==
    /\ \E catalogue \in Catalogues, w \in InitWorlds :
          /\ sprites = catalogue
          /\ mainsd_anim \in HandlesOf(catalogue, w.slots)
          /\ disk = InitDisk(w)
    /\ edits \in LookupEdits
    /\ open_files = <<>>
    /\ saves = 0
    /\ last = Call("init", "Ok")

\* file_location on the key, as the setters and Files::file call it.
locate(sprite, ty, io) ==
    /\ open_files' = Resolve(sprite, ty, io).open_files
    /\ last' = Answered("file_location", <<sprite, ty>>, Resolve(sprite, ty, io))
    /\ UNCHANGED <<sprites, mainsd_anim, edits, disk, saves>>

\* Files::file on the key.
lookup(sprite, ty, io) ==
    /\ open_files' =
          FileIn(edits, mainsd_anim, open_files, sprites, disk, sprite, ty, io).open_files
    /\ last' = Answered("file", <<sprite, ty>>,
                        FileIn(edits, mainsd_anim, open_files, sprites, disk, sprite, ty, io))
    /\ UNCHANGED <<sprites, mainsd_anim, edits, disk, saves>>

NextResolve ==
    \/ \E s \in AskedSprites, ty \in SpriteTypes, io \in IoOutcomes : locate(s, ty, io)
    \/ \E s \in DOMAIN sprites, ty \in SpriteTypes, io \in IoOutcomes : lookup(s, ty, io)

SpecResolve == InitResolve /\ [][NextResolve]_vars

\* ------------------------------------------------------------------ frame alignment

\* The largest frame width or height the import is asked to align.
MaxFrameSide == 64

\* 2^16: the frame sizes are u16.
U16Range == 65536

\* How the build treats integer overflow: a debug build panics, a release
\* build wraps.
Builds == {"debug", "release"}

\* A u16 result: the value, and whether an operation wrapped on the way to it.
U16Value(v, wrapped) == [kind |-> "Value", v |-> v, wrapped |-> wrapped]
U16Panic == [kind |-> "Panic", v |-> 0, wrapped |-> FALSE]

\* `a - b`, `a + b` and `a * b` on u16.
U16Sub(a, b, build) ==
    IF a.kind = "Panic" THEN a
    ELSE IF a.v >= b THEN U16Value(a.v - b, a.wrapped)
    ELSE IF build = "debug" THEN U16Panic
    ELSE U16Value((a.v - b) % U16Range, TRUE)

U16Add(a, b, build) ==
    IF a.kind = "Panic" THEN a
    ELSE IF a.v + b < U16Range THEN U16Value(a.v + b, a.wrapped)
    ELSE IF build = "debug" THEN U16Panic
    ELSE U16Value((a.v + b) % U16Range, TRUE)

U16Mul(a, b, build) ==
    IF a.kind = "Panic" THEN a
    ELSE IF a.v * b < U16Range THEN U16Value(a.v * b, a.wrapped)
    ELSE IF build = "debug" THEN U16Panic
    ELSE U16Value((a.v * b) % U16Range, TRUE)

\* `a | (alignment - 1)` for an alignment that is a power of two.
U16OrLowBits(a, alignment) ==
    IF a.kind = "Panic" THEN a
    ELSE U16Value(a.v - (a.v % alignment) + (alignment - 1), a.wrapped)

\* The alignment and the scale factor import_frames takes for the sprite type.
alignment(ty) == IF ty = "Hd" THEN 32 ELSE IF ty = "Hd2" THEN 16 ELSE 4
scale_mul(ty) == IF ty = "Hd2" THEN 2 ELSE 1

\* `((val - 1) | (alignment - 1)) + 1`
align(val, ty, build) ==
    U16Add(U16OrLowBits(U16Sub(U16Value(val, FALSE), 1, build), alignment(ty)), 1, build)

\* `f.width = align(f.width) * scale_mul`
aligned_size(val, ty, build) == U16Mul(align(val, ty, build), scale_mul(ty), build)

InitAlign ==
    /\ NoFiles
    /\ \E val \in 0 .. MaxFrameSide, ty \in SpriteTypes, build \in Builds :
          last = Asked("frame", [val |-> val, ty |-> ty, build |-> build])

align_frame ==
    /\ last.op = "frame"
    /\ last' = Answered("align", last.arg,
                        aligned_size(last.arg.val, last.arg.ty, last.arg.build))
    /\ UNCHANGED <<sprites, mainsd_anim, open_files, edits, disk, saves>>

NextAlign == align_frame

SpecAlign == InitAlign /\ [][NextAlign]_vars

\* ------------------------------------------------------------------ properties

\* What the unedited original yields for a key of the overlay.
Original(key) ==
    IF key[2] = "Sd" THEN MainSd_values_or_ref(mainsd_anim.v.sd, key[1])
    ELSE VorValues(disk[KeyPath(key)].values)

\* The step is a call of save().
SaveStep == saves' = saves + 1

\* The errors save() returns from its write phase.
WriteErrs == {"no_path", "open", "read", "ref_edit", "create", "write"}

\* The file the write phase of save() produces for `dest`.
Patched(dest) ==
    IF dest = MainSdPath
    THEN MainSd_write_patched(mainsd_anim.v.sd, SdEdits(edits), SdTextures(edits))
    ELSE LET key == CHOOSE k \in DOMAIN edits : k[2] # "Sd" /\ KeyPath(k) = dest
         IN Anim_write_patched(disk[dest], edits[key].values, edits[key].tex_changes)

\* C1: while only the setters have been called, every entry of the overlay
\* differs from the original of its key: no key holds Ref(t) while its original
\* slot is Ref(t), and no key holds a Values edit without texture change whose
\* values are the original owned values.
C1_OverlayDiffersFromOriginal ==
    saves = 0 =>
        \A k \in DOMAIN edits :
            /\ ~(edits[k].kind = "Ref" /\ Original(k) = VorRef(edits[k].img))
            /\ ~(/\ edits[k].kind = "Values"
                 /\ edits[k].tex_changes = None
                 /\ Original(k) = VorValues(edits[k].values))

\* C2: every Ref edit of the overlay is keyed by the SD variant, and the
\* assertion of Files::file on the variant of a Ref edit never fails.
C2_RefEditsAreSd ==
    /\ \A k \in DOMAIN edits : edits[k].kind = "Ref" => k[2] = "Sd"
    /\ last.res # "Panic"

C4_NoRenameBeforeAllWritten ==
    [][SaveStep =>
            /\ last'.err \in WriteErrs =>
                  /\ last'.renamed = 0
                  /\ \A p \in TreePaths : disk'[p] = disk[p]
            /\ (\E p \in TreePaths : disk'[p] # disk[p]) =>
                  /\ last'.err \notin WriteErrs
                  /\ last'.renamed >= 1]_vars

\* A save() whose second write failed after the first temporary file was written.
C4_Witness ==
    /\ last.op = "save"
    /\ last.err = "write"
    /\ Len(last.temp_files) = 2
    /\ disk[last.temp_files[1].temp].kind = "Anim"
    /\ disk[last.temp_files[2].temp] = Partial

\* C5: when the overlay holds a Ref edit for an HD or HD2 key, save() returns an
\* error and no file has been touched: no temporary file was created and no
\* rename was made.
C5_HdRefAbortsBeforeAnyFile ==
    [][(SaveStep /\ \E k \in DOMAIN edits : k[2] # "Sd" /\ edits[k].kind = "Ref") =>
            /\ last'.res = "Err"
            /\ last'.created = {}
            /\ last'.renamed = 0
            /\ disk' = disk]_vars

\* C6 as claimed: the cache is empty when save() returns, whatever the outcome.
C6_CacheEmptyAfterSave ==
    [][SaveStep => open_files' = <<>>]_vars

\* C6 as amended: save() empties the cache once its write phase has succeeded:
\* the cache is empty when save() returns Ok, a rename error or a reload error,
\* and is what it was before the call when save() returns a write-phase error.
C6_CacheEmptyAfterWritePhase ==
    [][SaveStep =>
            open_files' = IF last'.err \in WriteErrs THEN open_files ELSE <<>>]_vars

\* A save() that returned a write-phase error and left the cache filled.
C6_Witness ==
    /\ last.op = "save"
    /\ last.err \in WriteErrs
    /\ open_files # <<>>

\* C7: the temporary files are renamed over their originals in the order they
\* were collected; at the first rename that fails no further rename is made, the
\* files renamed before it stay committed, the remaining temporary files stay
\* on disk, and save() returns that error.
C7_FirstFailedRenameStops ==
    [][(SaveStep /\ last'.err \notin WriteErrs
                 /\ last'.renamed < Len(last'.temp_files)) =>
            /\ \A n \in 1 .. Len(last'.temp_files) :
                  IF n <= last'.renamed
                  THEN /\ disk'[last'.temp_files[n].dest] = Patched(last'.temp_files[n].dest)
                       /\ disk'[last'.temp_files[n].temp] = NoFile
                  ELSE /\ disk'[last'.temp_files[n].dest] = disk[last'.temp_files[n].dest]
                       /\ disk'[last'.temp_files[n].temp] = Patched(last'.temp_files[n].dest)
            /\ last'.res = "Err"
            /\ last'.err = "rename"]_vars

\* C8: save() clears the overlay only if every rename succeeded; when save()
\* returns Ok the overlay and the cache are empty and has_changes() is false.
C8_OverlayClearedOnlyOnSuccess ==
    [][SaveStep =>
            /\ edits' # edits =>
                  /\ last'.renamed = Len(last'.temp_files)
                  /\ last'.err = "none"
            /\ last'.res = "Ok" =>
                  /\ edits' = EmptyMap
                  /\ open_files' = <<>>
                  /\ ~has_changes'
            /\ last'.res = "Err" => edits' = edits]_vars

\* A save() that returned Ok after renaming two files.
C8_Witness ==
    /\ last.op = "save"
    /\ last.res = "Ok"
    /\ last.renamed = 2
    /\ ~has_changes

\* C9: save() with an empty overlay is a no-op: no temporary file is created,
\* no file is renamed, and the aggregate container handle is left open and
\* unchanged.
C9_EmptySaveIsNoOp ==
    [][(SaveStep /\ ~has_changes) =>
            /\ last'.created = {}
            /\ last'.renamed = 0
            /\ disk' = disk
            /\ mainsd_anim' # None
            /\ mainsd_anim' = mainsd_anim]_vars

\* C10: after set_ref_enabled(0, Sd, true), set_ref_img(0, Sd, 1) and a save()
\* that returns Ok, the reloaded slot of sprite 0 is a reference that resolves in
\* one hop to sprite 1's original values, frames and textures, the slot of
\* sprite 1 is unchanged, and every HD/HD2 file is what it was before the save.
C10_EndToEnd ==
    [][(SaveStep /\ last.op = "set_ref_img" /\ last'.res = "Ok") =>
            /\ mainsd_anim' = Some([path |-> MainSdPath, sd |-> disk'[MainSdPath]])
            /\ disk'[MainSdPath].sprites[0] = SlotRef(1)
            /\ MainSd_resolve(disk'[MainSdPath], 0) = Some(mainsd_anim.v.sd.sprites[1])
            /\ MainSd_sprite_values(disk'[MainSdPath], 0)
                  = Some(mainsd_anim.v.sd.sprites[1].values)
            /\ MainSd_frames(disk'[MainSdPath], 0) = Some(mainsd_anim.v.sd.sprites[1].frames)
            /\ MainSd_texture_sizes(disk'[MainSdPath], 0)
                  = Some(SizesOf(mainsd_anim.v.sd.sprites[1].textures))
            /\ disk'[MainSdPath].sprites[1] = mainsd_anim.v.sd.sprites[1]
            /\ mainsd_anim.v.sd.sprites[1].kind = "Data"
            /\ \A k \in Sprites \X {"Hd", "Hd2"} : disk'[KeyPath(k)] = disk[KeyPath(k)]]_vars

\* The scenario saved: the committed aggregate container holds the reference.
C10_Witness ==
    /\ last.op = "save"
    /\ last.res = "Ok"
    /\ last.renamed = 1
    /\ mainsd_anim # None
    /\ mainsd_anim.v.sd.sprites[0] = SlotRef(1)
    /\ disk[hd_filename(0, "anim")].kind = "Anim"
    /\ disk[hd_filename(1, "anim")].kind = "Anim"

\* The key resolves: the aggregate container is loaded, or the file is there.
Resolvable(key) ==
    IF key[2] = "Sd" THEN mainsd_anim # None /\ key[1] \in DOMAIN mainsd_anim.v.sd.sprites
    ELSE disk[KeyPath(key)].kind = "Anim"

\* The key is in Ref state: it holds a Ref edit, or holds no edit over an
\* original that is a reference.
InRefState(key) ==
    IF key \in DOMAIN edits THEN edits[key].kind = "Ref"
    ELSE Resolvable(key) /\ Original(key).kind = "Ref"

\* The composite view of a key in the state as it is.
View(sprite, ty) ==
    FileIn(edits, mainsd_anim, open_files, sprites, disk, sprite, ty, "ok")

\* C11: for a resolvable SD sprite s, set_ref_img(s, Sd, t) with t the original
\* reference target leaves no entry for (s, Sd); with any other t it leaves
\* the entry Ref(t) for (s, Sd) and the other entries as they were, and the view
\* of (s, Sd) then reports image_ref() = t.
C11_SetRefImgCollapsesOrStores ==
    [][last'.op = "set_ref_img" =>
       \A s \in Sprites, t \in Sprites :
          (Resolvable(<<s, "Sd">>) /\ set_ref_img(s, "Sd", t, "ok")) =>
              /\ \A k \in Keys \ {<<s, "Sd">>} : MapGet(edits', k) = MapGet(edits, k)
              /\ IF Original(<<s, "Sd">>) = VorRef(t)
                 THEN <<s, "Sd">> \notin DOMAIN edits'
                 ELSE /\ MapGet(edits', <<s, "Sd">>) = Some(EditRef(t))
                      /\ View(s, "Sd")'.res = "Some"
                      /\ File_image_ref(View(s, "Sd")'.view) = Some(t)]_vars

\* set_ref_img has replaced the original reference to sprite 1 by one to sprite 0.
C11_Witness ==
    /\ last.op = "set_ref_img"
    /\ last.res = "Ok"
    /\ mainsd_anim # None
    /\ Original(<<0, "Sd">>) = VorRef(1)
    /\ edits = MapInsert(EmptyMap, <<0, "Sd">>, EditRef(0))

\* C12: set_tex_changes on a key in Ref state is a no-op: the overlay is after
\* the call what it was before it (a key holding Ref(t) still holds Ref(t), no
\* entry is created for a key that had none) and has_changes() keeps its value.
C12_TexChangeOnRefIsNoOp ==
    [][last'.op = "set_tex_changes" =>
       \A s \in Sprites, ty \in SpriteTypes, c \in TexChangesIn, io \in IoOutcomes :
          (InRefState(<<s, ty>>) /\ set_tex_changes(s, ty, c, io)) =>
              /\ edits' = edits
              /\ has_changes' = has_changes]_vars

\* The key resolves to an original of owned values.
OwnedOriginal(key) == Resolvable(key) /\ Original(key).kind = "Values"

\* C13: for a key with no entry whose original is owned values, update_file
\* changing a field stores the changed values, and update_file restoring the
\* field right after leaves no entry for the key: has_changes() is what it
\* was before the first call.
C13_UpdateThenRestore ==
    [][last'.op = "update_file" =>
       \A s \in Sprites, ty \in SpriteTypes, w \in Widths :
          /\ (/\ <<s, ty>> \notin DOMAIN edits
              /\ OwnedOriginal(<<s, ty>>)
              /\ w # Original(<<s, ty>>).values.width
              /\ update_file(s, ty, w, "ok")) =>
                  /\ edits' = MapInsert(edits, <<s, ty>>,
                                        EditValues(SetWidth(Original(<<s, ty>>).values, w), None))
                  /\ has_changes'
          /\ (/\ <<s, ty>> \in DOMAIN edits
              /\ OwnedOriginal(<<s, ty>>)
              /\ \E v \in Widths \ {Original(<<s, ty>>).values.width} :
                    edits[<<s, ty>>] = EditValues(SetWidth(Original(<<s, ty>>).values, v), None)
              /\ w = Original(<<s, ty>>).values.width
              /\ update_file(s, ty, w, "ok")) =>
                  /\ edits' = MapRemove(edits, <<s, ty>>)
                  /\ <<s, ty>> \notin DOMAIN edits'
                  /\ has_changes' = (DOMAIN edits \ {<<s, ty>>} # {})]_vars

\* update_file has changed the width of an HD sprite that had no entry: the
\* state in which the restoring call is made.
C13_Witness ==
    /\ last.op = "update_file"
    /\ last.res = "Ok"
    /\ OwnedOriginal(<<0, "Hd">>)
    /\ edits = MapInsert(EmptyMap, <<0, "Hd">>,
                         EditValues(SetWidth(Original(<<0, "Hd">>).values, 2), None))

\* The Values edit a key holds, if it holds one.
ValuesEdit(key) ==
    IF key \in DOMAIN edits /\ edits[key].kind = "Values" THEN Some(edits[key]) ELSE None

\* Every field of the view is that of its location.
FieldsOriginal(f) ==
    /\ File_sprite_values(f) = Loc_sprite_values(f.location)
    /\ File_frames(f) = Loc_frames(f.location)
    /\ File_texture_sizes(f) = Loc_texture_sizes(f.location)
    /\ f.textures = None

\* The original of the key is a reference to a sprite that holds a Values edit.
TargetEdited(key) ==
    /\ Original(key).kind = "Ref"
    /\ ValuesEdit(<<Original(key).img, key[2]>>) # None

\* C14 as claimed: for a key that holds no edit, every field of the view (sprite
\* values, frames, texture sizes, reference target) is that of the resolver's
\* original location, whatever edits are pending on other sprites.
C14_UneditedViewIsOriginal ==
    \A k \in Keys :
        (k \notin DOMAIN edits /\ Resolvable(k)) =>
            /\ View(k[1], k[2]).res = "Some"
            /\ FieldsOriginal(View(k[1], k[2]).view)
            /\ File_image_ref(View(k[1], k[2]).view) = image_ref(View(k[1], k[2]).view.location)

\* C14 as amended: for a key that holds no edit the reference target of the
\* view is that of the original location, and so is every data field unless
\* the original is a reference to a sprite that holds a pending Values edit.
C14_UneditedViewIsOriginalUnlessTargetEdited ==
    \A k \in Keys :
        (k \notin DOMAIN edits /\ Resolvable(k)) =>
            /\ View(k[1], k[2]).res = "Some"
            /\ TargetEdited(k) \/ FieldsOriginal(View(k[1], k[2]).view)
            /\ File_image_ref(View(k[1], k[2]).view) = image_ref(View(k[1], k[2]).view.location)

\* A lookup made while sprite 0 holds no edit and sprite 1 holds one.
C14_Witness ==
    /\ last.op = "file"
    /\ last.res = "Some"
    /\ mainsd_anim # None
    /\ <<0, "Sd">> \notin DOMAIN edits
    /\ <<1, "Sd">> \in DOMAIN edits
    /\ ~TargetEdited(<<0, "Sd">>)

\* The fields of the view `f` are those of the sprite t: of its Values edit
\* `e` when it holds one, of its original data otherwise.
FieldsOfTarget(f, t, e, sd) ==
    IF e # None
    THEN /\ File_sprite_values(f) = Some(e.v.values)
         /\ IF e.v.tex_changes # None
            THEN /\ File_frames(f) = Some(e.v.tex_changes.v.frames)
                 /\ f.textures = Some(e.v.tex_changes.v.textures)
                 /\ File_texture_sizes(f) = Some(SizesOf(e.v.tex_changes.v.textures))
            ELSE MainSd_resolve(sd, t) # None =>
                    /\ File_frames(f) = MainSd_frames(sd, t)
                    /\ File_texture_sizes(f) = MainSd_texture_sizes(sd, t)
    ELSE MainSd_resolve(sd, t) # None =>
            /\ File_sprite_values(f) = MainSd_sprite_values(sd, t)
            /\ File_frames(f) = MainSd_frames(sd, t)
            /\ File_texture_sizes(f) = MainSd_texture_sizes(sd, t)

\* C15: for a sprite s holding the edit Ref(t), every data field of the view of
\* (s, Sd) is the target's: of t's pending Values edit where t has one, of t's
\* original data otherwise, never of s's own original slot; and the view
\* reports s as referring to t.
C15_RefEditShowsTarget ==
    \A s \in DOMAIN sprites :
        (/\ mainsd_anim # None
         /\ <<s, "Sd">> \in DOMAIN edits
         /\ edits[<<s, "Sd">>].kind = "Ref") =>
            /\ View(s, "Sd").res = "Some"
            /\ File_image_ref(View(s, "Sd").view) = Some(edits[<<s, "Sd">>].img)
            /\ FieldsOfTarget(View(s, "Sd").view, edits[<<s, "Sd">>].img,
                              ValuesEdit(<<edits[<<s, "Sd">>].img, "Sd">>), mainsd_anim.v.sd)

\* The fields of the view `f` of a sprite that holds no edit and whose original
\* refers to a sprite holding the Values edit `e`, or none.
FieldsThroughOriginal(f, e) ==
    IF e # None
    THEN /\ File_sprite_values(f) = Some(e.v.values)
         /\ IF e.v.tex_changes # None
            THEN /\ File_frames(f) = Some(e.v.tex_changes.v.frames)
                 /\ f.textures = Some(e.v.tex_changes.v.textures)
                 /\ File_texture_sizes(f) = Some(SizesOf(e.v.tex_changes.v.textures))
            ELSE /\ File_frames(f) = Loc_frames(f.location)
                 /\ File_texture_sizes(f) = Loc_texture_sizes(f.location)
    ELSE FieldsOriginal(f)

\* C16: for a sprite s with no edit whose original SD slot refers to t, the view
\* of (s, Sd) shows t's pending Values edit (its values, and the frames and
\* textures of its texture change) when t holds one and the original data
\* otherwise; a pending Ref edit on t is not followed.
C16_OriginalRefShowsTargetEdit ==
    \A s \in DOMAIN sprites :
        (/\ mainsd_anim # None
         /\ <<s, "Sd">> \notin DOMAIN edits
         /\ Original(<<s, "Sd">>).kind = "Ref") =>
            /\ View(s, "Sd").res = "Some"
            /\ File_image_ref(View(s, "Sd").view) = Some(Original(<<s, "Sd">>).img)
            /\ FieldsThroughOriginal(View(s, "Sd").view,
                                     ValuesEdit(<<Original(<<s, "Sd">>).img, "Sd">>))

\* A lookup made while sprite 0 holds no edit, its original target 1 holds a
\* Ref edit to sprite 2 and sprite 2 holds a Values edit.
C16_Witness ==
    /\ last.op = "file"
    /\ mainsd_anim # None
    /\ mainsd_anim.v.sd.sprites = Fan3
    /\ <<0, "Sd">> \notin DOMAIN edits
    /\ MapGet(edits, <<1, "Sd">>) = Some(EditRef(2))
    /\ ValuesEdit(<<2, "Sd">>) # None

\* C17: for a key holding a Values edit, the sprite values of the view are the
\* edit's, its frames and textures are those of the edit's texture change when
\* one is attached, and image_ref() reports no reference even when the
\* original slot is a reference.
C17_ValuesEditShowsItself ==
    \A k \in Keys :
        (ValuesEdit(k) # None /\ Resolvable(k)) =>
            /\ View(k[1], k[2]).res = "Some"
            /\ File_sprite_values(View(k[1], k[2]).view) = Some(edits[k].values)
            /\ edits[k].tex_changes # None =>
                  /\ File_frames(View(k[1], k[2]).view) = Some(edits[k].tex_changes.v.frames)
                  /\ View(k[1], k[2]).view.textures = Some(edits[k].tex_changes.v.textures)
                  /\ File_texture_sizes(View(k[1], k[2]).view)
                        = Some(SizesOf(edits[k].tex_changes.v.textures))
            /\ File_image_ref(View(k[1], k[2]).view) = None

\* A lookup made while a sprite whose original slot is a reference holds a
\* Values edit with a texture change.
C17_Witness ==
    /\ last.op = "file"
    /\ last.res = "Some"
    /\ mainsd_anim # None
    /\ Original(<<0, "Sd">>).kind = "Ref"
    /\ ValuesEdit(<<0, "Sd">>) # None
    /\ edits[<<0, "Sd">>].tex_changes # None

\* The sprite one reference hop from s: the target of its Ref edit, or of its
\* original when it holds no edit.
Hop(s) ==
    IF <<s, "Sd">> \in DOMAIN edits
    THEN IF edits[<<s, "Sd">>].kind = "Ref" THEN Some(edits[<<s, "Sd">>].img) ELSE None
    ELSE image_ref(LocMainSd(s, mainsd_anim.v.sd))

\* The sprite values a view of s can take over within one hop: those of its own
\* Values edit, those of the Values edit of the sprite one hop away, or what
\* the aggregate container has for that sprite.
WithinOneHop(s, hop) ==
    {None}
    \cup (IF ValuesEdit(<<s, "Sd">>) # None THEN {Some(edits[<<s, "Sd">>].values)} ELSE {})
    \cup (IF hop = None THEN {}
          ELSE {MainSd_sprite_values(mainsd_anim.v.sd, hop.v)}
               \cup (IF ValuesEdit(<<hop.v, "Sd">>) # None
                     THEN {Some(edits[<<hop.v, "Sd">>].values)} ELSE {}))

\* C18: file() returns a view for every SD sprite, following at most one
\* reference hop, also when the target is itself a reference (original or
\* edited) and when a sprite refers to itself.
C18_ViewWithinOneHop ==
    \A s \in DOMAIN sprites :
        mainsd_anim # None =>
            /\ View(s, "Sd").res = "Some"
            /\ View(s, "Sd").view.sprite_values \in WithinOneHop(s, Hop(s))
            /\ File_image_ref(View(s, "Sd").view) = Hop(s)

\* A lookup made in the container of the reference cycle while sprite 0 holds
\* a Ref edit to itself and sprite 2, which refers to itself, holds none.
C18_Witness ==
    /\ last.op = "file"
    /\ last.res = "Some"
    /\ mainsd_anim # None
    /\ mainsd_anim.v.sd.sprites = Loop3
    /\ edits = MapInsert(EmptyMap, <<0, "Sd">>, EditRef(0))

\* C19: the cache holds at most one entry per (sprite, variant) key and only
\* HD/HD2 keys, and resolving a cached key returns the cached container
\* and leaves the cache as it is, whatever opening the file would do.
C19_CacheHasOneEntryPerKey ==
    /\ \A n \in DOMAIN open_files, m \in DOMAIN open_files :
          (open_files[n].sprite = open_files[m].sprite /\ open_files[n].ty = open_files[m].ty)
              => n = m
    /\ \A n \in DOMAIN open_files :
          /\ open_files[n].ty \in {"Hd", "Hd2"}
          /\ \A io \in IoOutcomes :
                file_location_hd(open_files, sprites, disk,
                                 open_files[n].sprite, open_files[n].ty, io)
                    = Located("Some", LocSeparate(open_files[n].anim), open_files)

\* A lookup made with two containers cached.
C19_Witness ==
    /\ last.op = "file"
    /\ last.res = "Some"
    /\ Len(open_files) = 2

\* What resolving an uncached HD/HD2 key returns: NotFound when the file is
\* missing, an error when opening or decoding it fails; the cache is left as
\* it is in both cases.
NotFoundOrError(key, io, fl) ==
    IF disk[KeyPath(key)] = NoFile
    THEN fl = Located("None", None, open_files)
    ELSE io # "ok" => (fl.res = "Err" /\ fl.open_files = open_files)

\* C20: resolving an HD/HD2 key whose file does not exist returns NotFound and
\* leaves the cache unchanged; an open or decode failure on an existing file
\* returns an error and inserts nothing into the cache.
C20_MissingFileIsNotFound ==
    \A k \in (DOMAIN sprites) \X {"Hd", "Hd2"} : \A io \in IoOutcomes :
        CachePosition(open_files, k[1], k[2]) = {} =>
            NotFoundOrError(k, io, file_location_hd(open_files, sprites, disk, k[1], k[2], io))

\* A lookup that found no file, made with a container of another key cached.
C20_Witness ==
    /\ last.op = "file"
    /\ last.res = "None"
    /\ Len(open_files) = 1

\* C21: set_ref_enabled(s, ty, enabled) with ty = Hd or Hd2 changes nothing:
\* the overlay, the cache and the aggregate handle are after the call what they
\* were before it.
C21_RefEnabledIgnoredOffSd ==
    [][last'.op = "set_ref_enabled" =>
       \A s \in Sprites, ty \in {"Hd", "Hd2"}, e \in BOOLEAN :
          set_ref_enabled(s, ty, e) =>
              /\ edits' = edits
              /\ open_files' = open_files
              /\ mainsd_anim' = mainsd_anim]_vars

\* set_ref_enabled was called on an HD key whose file is cached, with edits pending.
C21_Witness ==
    /\ last.op = "set_ref_enabled"
    /\ last.res = "Ignored"
    /\ open_files # <<>>
    /\ edits # EmptyMap

\* C22 as claimed: set_ref_enabled(s, Sd, false) on a sprite that is currently
\* a reference, by its original slot or by a pending Ref edit, leaves the
\* sentinel values (unknown field 0xFFFF, width 0, height 0) with no texture
\* change as the sprite's explicit values; the state before the reference was
\* enabled is not recovered.
C22_DisableGivesSentinel ==
    [][last'.op = "set_ref_enabled" =>
       \A s \in Sprites :
          (/\ InRefState(<<s, "Sd">>)
           /\ Resolvable(<<s, "Sd">>)
           /\ set_ref_enabled(s, "Sd", FALSE)) =>
              /\ MapGet(edits', <<s, "Sd">>) = Some(EditValues(SentinelValues, None))
              /\ File_sprite_values(View(s, "Sd")'.view) = Some(SentinelValues)]_vars

\* C22 as amended: set_ref_enabled(s, Sd, false) leaves the sentinel values with
\* no texture change when the original slot of s is a reference, whatever edit
\* s held; when the original slot holds explicit values it removes the edit
\* of s, so that the original values show again.
C22_DisableGivesSentinelOrOriginal ==
    [][last'.op = "set_ref_enabled" =>
       \A s \in Sprites :
          (Resolvable(<<s, "Sd">>) /\ set_ref_enabled(s, "Sd", FALSE)) =>
              /\ \A k \in Keys \ {<<s, "Sd">>} : MapGet(edits', k) = MapGet(edits, k)
              /\ IF Original(<<s, "Sd">>).kind = "Ref"
                 THEN /\ MapGet(edits', <<s, "Sd">>) = Some(EditValues(SentinelValues, None))
                      /\ File_sprite_values(View(s, "Sd")'.view) = Some(SentinelValues)
                      /\ File_image_ref(View(s, "Sd")'.view) = None
                 ELSE /\ <<s, "Sd">> \notin DOMAIN edits'
                      /\ File_sprite_values(View(s, "Sd")'.view)
                            = Some(Original(<<s, "Sd">>).values)]_vars

\* The reference of a sprite whose original slot is one has been disabled.
C22_Witness ==
    /\ last.op = "set_ref_enabled"
    /\ last.res = "Ok"
    /\ mainsd_anim # None
    /\ Original(<<0, "Sd">>).kind = "Ref"
    /\ MapGet(edits, <<0, "Sd">>) = Some(EditValues(SentinelValues, None))

\* C23: update_file(s, ty, f) does nothing when the sprite is currently a Ref:
\* the overlay is after the call what it was before it.
C23_UpdateOnRefIsNoOp ==
    [][last'.op = "update_file" =>
       \A s \in Sprites, ty \in SpriteTypes, w \in Widths, io \in IoOutcomes :
          (InRefState(<<s, ty>>) /\ update_file(s, ty, w, io)) => edits' = edits]_vars

\* C24: has_changes() is true exactly when the overlay has at least one entry.
C24_HasChangesIffNonEmpty ==
    has_changes <=> Cardinality(DOMAIN edits) >= 1

\* A setter left exactly one entry in the overlay.
C24_Witness ==
    /\ last.op = "update_file"
    /\ last.res = "Ok"
    /\ Cardinality(DOMAIN edits) = 1
    /\ has_changes

\* What the accessors of the view of (sprite, Sd) return.
Shown(v) ==
    IF v.res # "Some" THEN <<v.res>>
    ELSE <<"Some", File_sprite_values(v.view), File_frames(v.view),
           File_texture_sizes(v.view), File_image_ref(v.view)>>

\* The sprite owns data in the aggregate container and holds no Ref edit.
OwnsData(t) ==
    /\ Original(<<t, "Sd">>).kind = "Values"
    /\ <<t, "Sd">> \in DOMAIN edits => edits[<<t, "Sd">>].kind = "Values"

\* The overlay asks the aggregate container for nothing but owned slots that
\* keep or replace their frames and references to sprites that own data.
PlainSdEdits ==
    /\ \E s \in DOMAIN sprites : <<s, "Sd">> \in DOMAIN edits
    /\ \A s \in DOMAIN sprites :
          IF <<s, "Sd">> \in DOMAIN edits
          THEN IF edits[<<s, "Sd">>].kind = "Ref" THEN OwnsData(edits[<<s, "Sd">>].img)
               ELSE \/ edits[<<s, "Sd">>].tex_changes # None
                    \/ Original(<<s, "Sd">>).kind = "Values"
          ELSE Original(<<s, "Sd">>).kind = "Ref" => OwnsData(Original(<<s, "Sd">>).img)

\* C25: after save() returns Ok with at least one SD edit pending, the
\* aggregate container is the one reloaded from the committed file, and for
\* every sprite the view of (s, Sd) right after the save is what it was right
\* before it. Stated for overlays that leave no reference to a reference.
C25_ViewSurvivesSave ==
    [][(last'.op = "save" /\ last'.res = "Ok" /\ mainsd_anim # None /\ PlainSdEdits) =>
          /\ mainsd_anim' = Some([path |-> MainSdPath, sd |-> disk'[MainSdPath]])
          /\ edits' = EmptyMap
          /\ \A s \in DOMAIN sprites : Shown(View(s, "Sd"))' = Shown(View(s, "Sd"))]_vars

\* C26: File::texture(layer) returns an error and never panics when the view
\* has overridden textures and the layer is out of range or has no texture,
\* when a reference is reported on a single-sprite location, and when the
\* reference reported points outside the sprites of the aggregate container.
C26_TextureErrorsNotPanics ==
    last.op = "texture" =>
        /\ last.res.res \in {"Ok", "Err"}
        /\ (/\ last.arg.file.textures # None
            /\ \/ last.arg.layer >= Len(last.arg.file.textures.v)
               \/ last.arg.file.textures.v[last.arg.layer + 1] = None)
              => last.res.res = "Err"
        /\ (/\ last.arg.file.textures = None
            /\ last.arg.file.image_ref # None
            /\ last.arg.file.image_ref.v # None)
              => IF last.arg.file.location.kind = "Separate" THEN last.res.res = "Err"
                 ELSE last.arg.file.image_ref.v.v \notin DOMAIN last.arg.file.location.mainsd.sprites
                         => last.res.res = "Err"

\* texture() was asked for a layer past the overridden ones.
C26_Witness ==
    /\ last.op = "texture"
    /\ last.arg.file.textures = Some(<<>>)
    /\ last.arg.layer = 1
    /\ last.res.res = "Err"

\* The path without its last n components.
Above(path, n) == SubSeq(path, 1, Len(path) - n)

\* The component n places before the last is the directory `dir`, in any case.
InDir(path, n, dir) ==
    /\ Len(path) > n
    /\ path[Len(path) - n] \notin {"/", ".."}
    /\ eq_ignore_ascii_case(path[Len(path) - n], dir)

\* The asset root of a path by its shape: <root>/sd/mainsd.anim,
\* <root>/hd2/anim/main_*.anim or <root>/anim/main_*.anim.
RootByShape(path) ==
    IF Len(path) = 0 \/ path[Len(path)] \in {"/", ".."} THEN None
    ELSE IF eq_ignore_ascii_case(path[Len(path)], "mainsd.anim")
    THEN IF InDir(path, 1, "sd") THEN Some(Above(path, 2)) ELSE None
    ELSE IF is_main_anim(path[Len(path)]) /\ InDir(path, 1, "anim")
    THEN IF InDir(path, 2, "hd2") THEN Some(Above(path, 3)) ELSE Some(Above(path, 2))
    ELSE None

\* C27: file_root_from_file returns the asset root exactly for the paths of the
\* shapes <root>/sd/mainsd.anim, <root>/anim/main_*.anim and
\* <root>/hd2/anim/main_*.anim, directory names and the aggregate filename in
\* any case, and None for mainsd.anim outside an sd folder, main_*.anim outside
\* an anim folder and every other filename.
C27_RootByShape ==
    last.op = "file_root_from_file" => last.res = RootByShape(last.arg)

\* The catalogue entry of index i of a directory tree.
TreeEntry(i) ==
    [kind |-> "AnimSet", image_id |-> i,
     hd_filename |-> Path("anim", <<"main", i>>),
     hd2_filename |-> Path("HD2/anim", <<"main", i>>)]

\* The catalogue by the shape of the path: the result and the entries.
CatalogueByShape(path, sd) ==
    IF RootByShape(path) # None
    THEN IF sd.kind = "broken" THEN <<"Err">>
         ELSE <<"Ok", [i \in 0 .. (IF sd.kind = "absent" THEN 999 ELSE sd.count) - 1
                          |-> TreeEntry(i)]>>
    ELSE IF Len(path) > 0 /\ path[Len(path)] \in {"mainsd.anim", "mainSD.anim"}
    THEN IF sd.kind = "loads"
         THEN <<"Ok", [i \in 0 .. sd.count - 1 |-> [kind |-> "MainSdOnly", image_id |-> i]]>>
         ELSE <<"Err">>
    ELSE <<"Ok", [i \in {0} |-> [kind |-> "SingleFile", path |-> path]]>>

\* C28: Files::init builds the catalogue by shape: for a directory-tree path one
\* AnimSet per index i with image_id = i and the paths <root>/anim/main_i.anim
\* and <root>/HD2/anim/main_i.anim, as many as the aggregate container reports
\* sprites or 999 when <root>/SD/mainSD.anim is absent; for a standalone
\* aggregate file one MainSdOnly per reported sprite; otherwise exactly one
\* SingleFile entry; a failure to load the aggregate makes init fail.
C28_CatalogueByShape ==
    last.op = "init" =>
        /\ last.res = CatalogueByShape(last.arg.path, last.arg.sd)[1]
        /\ last.res = "Ok" => sprites = CatalogueByShape(last.arg.path, last.arg.sd)[2]

\* C29: access to the asset state is exclusive: an entry point of the UI that
\* is triggered while another access holds the state returns without changing
\* the catalogue, the aggregate handle, the cache, the overlay or the disk, and
\* never ends the program.
C29_AccessIsExclusive ==
    [][Held /\ last'.op \in EntryPoints
        => /\ last'.res \in {"Rejected", "Ignored"}
           /\ UNCHANGED <<sprites, mainsd_anim, open_files, edits, disk, saves>>]_vars

\* The pixels of the image with non-zero alpha, as (x, y).
Visible(image) ==
    {xy \in (0 .. image.width - 1) \X (0 .. image.height - 1) :
        PixelAt(image.data, image.width, xy[1], xy[2]).a # 0}

\* The rectangle holds every visible pixel and each of its four edges holds one.
TightAround(c, visible) ==
    /\ \A xy \in visible : /\ c.x_offset <= xy[1] /\ xy[1] < c.x_offset + c.width
                           /\ c.y_offset <= xy[2] /\ xy[2] < c.y_offset + c.height
    /\ \E xy \in visible : xy[1] = c.x_offset
    /\ \E xy \in visible : xy[1] = c.x_offset + c.width - 1
    /\ \E xy \in visible : xy[2] = c.y_offset
    /\ \E xy \in visible : xy[2] = c.y_offset + c.height - 1

\* The data is the image inside the rectangle, row after row.
CroppedTo(box, image) ==
    /\ Len(box.data) = box.coords.width * box.coords.height
    /\ \A x \in 0 .. box.coords.width - 1, y \in 0 .. box.coords.height - 1 :
          box.data[y * box.coords.width + x + 1]
            = PixelAt(image.data, image.width, box.coords.x_offset + x, box.coords.y_offset + y)

\* C30: rgba_bounding_box returns the smallest rectangle that holds every
\* pixel with non-zero alpha, with the image cropped to it row by row as data;
\* an image without such a pixel gives offsets 0, size 0x0 and empty data.
C30_TightBoundingBox ==
    last.op = "rgba_bounding_box"
        => IF Visible(last.arg) = {}
           THEN last.res = BoundedBox(<<>>, FrameCoords(0, 0, 0, 0))
           ELSE /\ TightAround(last.res.coords, Visible(last.arg))
                /\ CroppedTo(last.res, last.arg)

\* A box with a transparent margin on each of its four sides.
C30_Witness ==
    /\ last.op = "rgba_bounding_box"
    /\ last.res.coords.x_offset > 0
    /\ last.res.coords.y_offset > 0
    /\ last.res.coords.x_offset + last.res.coords.width < last.arg.width
    /\ last.res.coords.y_offset + last.res.coords.height < last.arg.height
    /\ last.res.data # <<>>

\* The edit update_file arrives at for the key: the one it holds, or one
\* seeded from the original, with the field written when it is a Values edit.
Resulting(key, orig, w) ==
    IF key \in DOMAIN edits
    THEN IF edits[key].kind = "Values"
         THEN EditValues(SetWidth(edits[key].values, w), edits[key].tex_changes)
         ELSE edits[key]
    ELSE IF orig.kind = "Values" THEN EditValues(SetWidth(orig.values, w), None)
    ELSE EditRef(orig.img)

\* The edit says nothing the original does not say.
SaysOriginal(edit, orig) ==
    \/ edit.kind = "Values" /\ edit.tex_changes = None
                            /\ orig.kind = "Values" /\ edit.values = orig.values
    \/ edit.kind = "Ref" /\ orig.kind = "Ref" /\ edit.img = orig.img

SeparateKeys == {k \in DOMAIN edits : k[2] # "Sd"}

\* The positions of the collected pairs whose original is `dest`.
PairsFor(temp_files, dest) == {n \in DOMAIN temp_files : temp_files[n].dest = dest}

\* C32: a save() that gets through its write phase has written one temporary
\* file per HD/HD2 key of the overlay and, when SD edits are pending, the
\* aggregate container to exactly one temporary file that covers all SD edits
\* and SD texture changes; the aggregate's (temp, original) pair is collected
\* last, so that it is renamed only after every other rename succeeded.
C32_OneTempPerFileAggregateLast ==
    [][(SaveStep /\ last'.err \notin WriteErrs) =>
         /\ \A k \in SeparateKeys :
               /\ Cardinality(PairsFor(last'.temp_files, KeyPath(k))) = 1
               /\ temp_file_path(KeyPath(k)) \in last'.created
         /\ Len(last'.temp_files)
              = Cardinality(SeparateKeys) + (IF DOMAIN SdEdits(edits) # {} THEN 1 ELSE 0)
         /\ Cardinality(last'.created) = Len(last'.temp_files)
         /\ \A n \in DOMAIN last'.temp_files :
               last'.temp_files[n].temp = temp_file_path(last'.temp_files[n].dest)
         /\ DOMAIN SdEdits(edits) # {} =>
               /\ mainsd_anim # None
               /\ PairsFor(last'.temp_files, MainSdPath) = {Len(last'.temp_files)}
               /\ IF last'.renamed = Len(last'.temp_files)
                  THEN disk'[MainSdPath] = Patched(MainSdPath)
                  ELSE /\ disk'[temp_file_path(MainSdPath)] = Patched(MainSdPath)
                       /\ disk'[MainSdPath] = disk[MainSdPath]]_vars

\* C33: resolving (s, Sd) gives the aggregate container at index s whenever
\* one is loaded and NotFound otherwise; file(s, Sd) gives NotFound for a key
\* that holds a Ref edit when none is loaded; resolving an HD/HD2 key of a
\* SingleFile or MainSdOnly entry, or of an index outside the catalogue,
\* gives NotFound.
C33_ResolveByVariantAndShape ==
    /\ (last.op = "file_location" /\ last.arg[2] = "Sd") =>
          IF mainsd_anim # None
          THEN /\ last.res.res = "Some"
               /\ last.res.loc = LocMainSd(last.arg[1], mainsd_anim.v.sd)
          ELSE last.res.res = "None"
    /\ (/\ last.op = "file_location"
        /\ last.arg[2] # "Sd"
        /\ \/ last.arg[1] \notin DOMAIN sprites
           \/ sprites[last.arg[1]].kind \in {"SingleFile", "MainSdOnly"}) =>
          last.res.res = "None"
    /\ (/\ last.op = "file"
        /\ last.arg[2] = "Sd"
        /\ last.arg \in DOMAIN edits
        /\ edits[last.arg].kind = "Ref"
        /\ mainsd_anim = None) =>
          last.res.res = "None"

\* The file of a single-file catalogue was asked for as an HD key and not found.
C33_Witness ==
    /\ last.op = "file_location"
    /\ last.arg = <<0, "Hd">>
    /\ sprites[0].kind = "SingleFile"
    /\ disk[sprites[0].path].kind = "Anim"
    /\ last.res.res = "None"

\* The file an edit of the key is saved to.
SavedTo(key) == IF key[2] = "Sd" THEN MainSdPath ELSE KeyPath(key)

\* The file at `dest` with the edits of the overlay that are saved to it.
WithEdits(dest) ==
    IF dest = MainSdPath
    THEN MainSd_write_patched(disk[dest], SdEdits(edits), SdTextures(edits))
    ELSE LET key == CHOOSE k \in DOMAIN edits : k[2] # "Sd" /\ KeyPath(k) = dest
         IN Anim_write_patched(disk[dest], edits[key].values, edits[key].tex_changes)

\* C34: when save() returns Ok, no edit that was pending when it was called
\* is dropped without being on disk: the file it is saved to holds it, also
\* when an earlier save() has failed.
C34_OkSaveCommitsEveryEdit ==
    [][(SaveStep /\ last'.res = "Ok") =>
         \A k \in DOMAIN edits :
            /\ disk[SavedTo(k)].kind # "NoFile"
            /\ disk'[SavedTo(k)] = WithEdits(SavedTo(k))]_vars

\* C35: an aggregate container that was loaded when save() was called is
\* loaded when save() returns, with Ok or with an error: the SD keys that
\* resolved before the save resolve after it.
C35_SaveKeepsAggregateLoaded ==
    [][(SaveStep /\ mainsd_anim # None) =>
         /\ mainsd_anim' # None
         /\ \A s \in Sprites :
               file_location(mainsd_anim', open_files', sprites', disk', s, "Sd", "ok").res
                  = "Some"]_vars

\* Every entry of the overlay but that of the key is what it was, and so are
\* the catalogue and the aggregate handle.
OnlyKeyTouched(key) ==
    /\ \A k \in (DOMAIN edits \cup DOMAIN edits') \ {key} :
          k \in DOMAIN edits /\ k \in DOMAIN edits' /\ edits'[k] = edits[k]
    /\ sprites' = sprites
    /\ mainsd_anim' = mainsd_anim

\* The resolver does not find the key: NotFound or an error.
NotLocated(sprite, ty, io) == Resolve(sprite, ty, io).res # "Some"

\* C36: a setter called for a key changes at most the overlay entry of that
\* key: the other entries, the catalogue and the aggregate handle are what
\* they were; when the key does not resolve the overlay is unchanged.
C36_SettersTouchOnlyTheirKey ==
    [][/\ last'.op = "set_ref_enabled" =>
            \A s \in Sprites, ty \in SpriteTypes, e \in BOOLEAN :
               set_ref_enabled(s, ty, e) =>
                  /\ OnlyKeyTouched(<<s, ty>>)
                  /\ NotLocated(s, ty, "ok") => edits' = edits
       /\ last'.op = "set_ref_img" =>
            \A s \in Sprites, ty \in SpriteTypes, t \in Sprites, io \in IoOutcomes :
               set_ref_img(s, ty, t, io) =>
                  /\ OnlyKeyTouched(<<s, ty>>)
                  /\ NotLocated(s, ty, io) => edits' = edits
       /\ last'.op = "set_tex_changes" =>
            \A s \in Sprites, ty \in SpriteTypes, c \in TexChangesIn, io \in IoOutcomes :
               set_tex_changes(s, ty, c, io) =>
                  /\ OnlyKeyTouched(<<s, ty>>)
                  /\ NotLocated(s, ty, io) => edits' = edits
       /\ last'.op = "update_file" =>
            \A s \in Sprites, ty \in SpriteTypes, w \in Widths, io \in IoOutcomes :
               update_file(s, ty, w, io) =>
                  /\ OnlyKeyTouched(<<s, ty>>)
                  /\ NotLocated(s, ty, io) => edits' = edits]_vars

\* A setter has been called for a key that does not resolve while the overlay
\* holds two entries.
C36_Witness ==
    /\ last.op \in {"set_ref_img", "set_tex_changes", "update_file"}
    /\ last.res = "Ignored"
    /\ Cardinality(DOMAIN edits) = 2

\* The overlay the claim gives for set_ref_enabled(key, e) on the overlay `ed`.
AfterRefEnabled(ed, key, e) ==
    IF (Original(key).kind = "Ref") = e THEN MapRemove(ed, key)
    ELSE MapInsert(ed, key, IF e THEN EditRef(0) ELSE EditValues(SentinelValues, None))

\* C37: set_ref_enabled(s, Sd, e) with e the reference status of the original
\* slot removes whatever edit the key holds; with e different from it, it
\* overwrites whatever edit the key holds with Ref(0) (e true) or the sentinel
\* values (e false); a second call with the same e leaves the overlay as the
\* first left it.
C37_RefEnabledOverwritesOrRemoves ==
    [][last'.op = "set_ref_enabled" =>
       \A s \in Sprites, e \in BOOLEAN :
          (Resolvable(<<s, "Sd">>) /\ set_ref_enabled(s, "Sd", e)) =>
              /\ edits' = AfterRefEnabled(edits, <<s, "Sd">>, e)
              /\ AfterRefEnabled(edits', <<s, "Sd">>, e) = edits']_vars

\* set_ref_enabled has stored Ref(0) over original owned values.
C37_Witness ==
    /\ last.op = "set_ref_enabled"
    /\ last.res = "Ok"
    /\ \E s \in Sprites :
          /\ OwnedOriginal(<<s, "Sd">>)
          /\ <<s, "Sd">> \in DOMAIN edits
          /\ edits[<<s, "Sd">>] = EditRef(0)

\* What the caller sees of a result of file(): not the cache it leaves.
Seen(f) == [res |-> f.res, view |-> f.view]

\* What file() returns for the key with the cache as given, the files opening
\* and decoding as they are on disk.
ViewWith(cache, key) ==
    Seen(FileIn(edits, mainsd_anim, cache, sprites, disk, key[1], key[2], "ok"))

\* The view of every key is the one an empty cache gives.
CacheIsTransparent ==
    open_files # <<>> => \A key \in Keys : ViewWith(open_files, key) = ViewWith(<<>>, key)

\* C38: the open-file cache is transparent: close_opened empties the cache and
\* changes nothing else (the pending edits survive), and file(s, v) returns
\* the same view whether the key is cached, was never cached or was evicted.
C38_CacheIsTransparent ==
    /\ [][last'.op = "close_opened" =>
            /\ open_files' = <<>>
            /\ edits' = edits
            /\ mainsd_anim' = mainsd_anim
            /\ sprites' = sprites
            /\ disk' = disk]_vars
    /\ []CacheIsTransparent

\* close_opened has evicted the container of an HD/HD2 key whose edit is
\* still pending.
C38_Witness ==
    /\ last.op = "close_opened"
    /\ open_files = <<>>
    /\ \E key \in DOMAIN edits : key[2] # "Sd" /\ edits[key].kind = "Values"

\* The smallest multiple of `a` that is at least `val`.
SmallestMultiple(val, a) ==
    CHOOSE m \in 0 .. (val + a) : m % a = 0 /\ m >= val /\ m - a < val

\* C39: the alignment of a frame width or height, followed by the
\* multiplication by the scale factor, gives the smallest multiple of the
\* alignment of the sprite type that is at least the value, times the scale
\* factor, and no operation underflows or overflows, for every value from 0 on.
C39_AlignIsSmallestMultiple ==
    last.op = "align" =>
        /\ last.res.kind = "Value"
        /\ ~last.res.wrapped
        /\ last.res.v = SmallestMultiple(last.arg.val, alignment(last.arg.ty))
                            * scale_mul(last.arg.ty)

====
